---- MODULE Spec2Model ----
(***************************************************************************)
(* imports-detector: module resolution (ModuleResolver), syntax extraction *)
(* (ImportExtractor) and the search orchestration (ImportAnalyzer).        *)
(*                                                                         *)
(* Strings are sequences of tokens.  The tokens "/", "\\" and "." are the  *)
(* single characters; every other token is an atom: a run of letters that  *)
(* contains none of these three characters (a directory name, a file stem, *)
(* an extension word).  No atom is a concatenation of other atoms, so a    *)
(* string has one tokenisation, and startsWith, endsWith, includes, the    *)
(* regular expressions of the code and the functions of node's posix path  *)
(* module act on tokens exactly as they act on the characters.             *)
(***************************************************************************)
EXTENDS Integers, Sequences, FiniteSets, TLC

VARIABLES
    fsFiles,      \* the disk: the set of absolute paths of regular files
    extensions,   \* ModuleResolver.extensions
    baseUrl,      \* ModuleResolver.baseUrl (NoBaseUrl when undefined)
    platform,     \* process.platform
    corpus,       \* the content of the source files of the disk: path -> parse outcome
    options,      \* ImportAnalyzer.options
    call,         \* the last call made: its operation and arguments
    ret,          \* the value that call returned
    find,         \* the activation of findFilesImporting: its position and local variables
    scan          \* the activation of analyzeProject and of the operation awaiting it

vars == <<fsFiles, extensions, baseUrl, platform, corpus, options, call, ret, find, scan>>

----------------------------------------------------------------------------
(* Values *)

SLASH == "/"
BSLASH == "\\"
DOT == "."

\* the absence value (null / undefined)
NULL == <<"<null>">>

\* this.baseUrl left undefined by the constructor
NoBaseUrl == <<"<undefined>">>

EmptyStr == <<>>

\* process.cwd()
Cwd == <<"/", "src">>

----------------------------------------------------------------------------
(* String primitives of the host language *)

StartsWith(s, p) == Len(s) >= Len(p) /\ SubSeq(s, 1, Len(p)) = p

EndsWith(s, p) == Len(s) >= Len(p) /\ SubSeq(s, Len(s) - Len(p) + 1, Len(s)) = p

Includes(s, tok) == \E i \in 1..Len(s) : s[i] = tok

Slice(s, from, to) == SubSeq(s, from, to)

DropLast(s, n) == SubSeq(s, 1, Len(s) - n)

\* Array.prototype.includes on a sequence
SeqIncludes(seq, x) == \E i \in 1..Len(seq) : seq[i] = x

\* const x = v; Body(x): the value is computed once and named
With(v, Body(_)) == Body(v)

\* the least and the greatest index of a set of indices, 0 when the set is empty
FirstIndex(S) == IF S = {} THEN 0 ELSE CHOOSE i \in S : \A j \in S : i <= j
LastIndex(S) == IF S = {} THEN 0 ELSE CHOOSE i \in S : \A j \in S : j <= i

\* String.prototype.toLowerCase on one token
LowerTok(tok) ==
    CASE tok = "T" -> "t"
      [] tok = "A" -> "a"
      [] tok = "TS" -> "ts"
      [] OTHER -> tok

toLowerCase(s) == [i \in 1..Len(s) |-> LowerTok(s[i])]

RECURSIVE CollapseSlashes(_)
\* .replace(/\/+/g, '/')
CollapseSlashes(s) ==
    IF Len(s) < 2 THEN s
    ELSE IF s[1] = SLASH /\ s[2] = SLASH THEN CollapseSlashes(Tail(s))
    ELSE <<s[1]>> \o CollapseSlashes(Tail(s))

\* .replace(/\\/g, '/')
BackslashesToSlashes(s) == [i \in 1..Len(s) |-> IF s[i] = BSLASH THEN SLASH ELSE s[i]]

\* .replace(/^\.\//, '')
StripLeadingDotSlash(s) == IF StartsWith(s, <<DOT, SLASH>>) THEN Slice(s, 3, Len(s)) ELSE s

\* .replace(/\/$/, '')
StripTrailingSlash(s) == IF Len(s) > 0 /\ s[Len(s)] = SLASH THEN DropLast(s, 1) ELSE s

----------------------------------------------------------------------------
(* node's posix path module *)

RECURSIVE SplitFrom(_, _, _)
\* the segments of s between "/" characters, from index i on; cur is the segment being read
SplitFrom(s, i, cur) ==
    IF i > Len(s) THEN <<cur>>
    ELSE IF s[i] = SLASH THEN <<cur>> \o SplitFrom(s, i + 1, <<>>)
    ELSE SplitFrom(s, i + 1, Append(cur, s[i]))

Split(s) == SplitFrom(s, 1, <<>>)

RECURSIVE JoinSegs(_)
JoinSegs(segs) ==
    IF Len(segs) = 0 THEN <<>>
    ELSE IF Len(segs) = 1 THEN segs[1]
    ELSE segs[1] \o <<SLASH>> \o JoinSegs(Tail(segs))

DotDot == <<DOT, DOT>>

RECURSIVE NormSegs(_, _, _)
\* normalizeString: drops "" and "." segments and resolves ".." segments
NormSegs(segs, acc, allowAboveRoot) ==
    IF Len(segs) = 0 THEN acc
    ELSE LET seg == Head(segs)
             rest == Tail(segs)
         IN IF seg = <<>> \/ seg = <<DOT>> THEN NormSegs(rest, acc, allowAboveRoot)
            ELSE IF seg = DotDot
                 THEN IF Len(acc) > 0 /\ acc[Len(acc)] # DotDot
                      THEN NormSegs(rest, DropLast(acc, 1), allowAboveRoot)
                      ELSE IF allowAboveRoot
                           THEN NormSegs(rest, Append(acc, DotDot), allowAboveRoot)
                           ELSE NormSegs(rest, acc, allowAboveRoot)
                 ELSE NormSegs(rest, Append(acc, seg), allowAboveRoot)

normalizeString(p, allowAboveRoot) == JoinSegs(NormSegs(Split(p), <<>>, allowAboveRoot))

\* path.isAbsolute
isAbsolute(p) == Len(p) > 0 /\ p[1] = SLASH

RECURSIVE ResolveArgs(_, _)
\* path.resolve's right-to-left scan: prepend arguments until the path is absolute
ResolveArgs(args, acc) ==
    IF isAbsolute(acc) THEN acc
    ELSE IF Len(args) = 0
         THEN (IF Len(acc) = 0 THEN Cwd ELSE Cwd \o <<SLASH>> \o acc)
         ELSE LET a == args[Len(args)]
                  rest == DropLast(args, 1)
              IN IF Len(a) = 0 THEN ResolveArgs(rest, acc)
                 ELSE ResolveArgs(rest, IF Len(acc) = 0 THEN a ELSE a \o <<SLASH>> \o acc)

\* path.resolve(...args)
pathResolve(args) == <<SLASH>> \o normalizeString(ResolveArgs(args, <<>>), FALSE)

\* path.normalize
pathNormalize(p) ==
    IF Len(p) = 0 THEN <<DOT>>
    ELSE LET abs == isAbsolute(p)
             trailing == p[Len(p)] = SLASH
         IN With(normalizeString(p, ~abs), LAMBDA n :
              IF Len(n) = 0
              THEN (IF abs THEN <<SLASH>> ELSE IF trailing THEN <<DOT, SLASH>> ELSE <<DOT>>)
              ELSE (IF abs THEN <<SLASH>> ELSE <<>>) \o n \o (IF trailing THEN <<SLASH>> ELSE <<>>))

\* path.join(a, b)
pathJoin(a, b) ==
    IF Len(a) = 0 /\ Len(b) = 0 THEN <<DOT>>
    ELSE IF Len(a) = 0 THEN pathNormalize(b)
    ELSE IF Len(b) = 0 THEN pathNormalize(a)
    ELSE pathNormalize(a \o <<SLASH>> \o b)

RECURSIVE StripTrailingSlashes(_)
StripTrailingSlashes(s) ==
    IF Len(s) > 1 /\ s[Len(s)] = SLASH THEN StripTrailingSlashes(DropLast(s, 1)) ELSE s

\* the index of the last "/" of s, 0 when there is none
LastSlash(s) == LastIndex({i \in 1..Len(s) : s[i] = SLASH})

\* path.dirname
dirname(p) ==
    IF Len(p) = 0 THEN <<DOT>>
    ELSE With(StripTrailingSlashes(p), LAMBDA q :
         With(LastSlash(q), LAMBDA k :
            IF q = <<SLASH>> THEN <<SLASH>>
            ELSE IF k = 0 THEN <<DOT>>
            ELSE IF k = 1 THEN <<SLASH>>
            ELSE IF k = 2 /\ q[1] = SLASH THEN <<SLASH, SLASH>>
            ELSE Slice(q, 1, k - 1)))

\* path.basename(p)
basename(p) ==
    With(StripTrailingSlashes(p), LAMBDA q :
        IF q = <<SLASH>> THEN <<>> ELSE Slice(q, LastSlash(q) + 1, Len(q)))

\* path.extname
extname(p) ==
    With(basename(p), LAMBDA b :
    With(LastIndex({i \in 1..Len(b) : b[i] = DOT}), LAMBDA k :
        IF k <= 1 \/ b = DotDot THEN <<>>
        ELSE Slice(b, k, Len(b))))

\* path.basename(p, ext)
basenameExt(p, ext) ==
    With(basename(p), LAMBDA b :
        IF Len(ext) > 0 /\ b # ext /\ EndsWith(b, ext) THEN DropLast(b, Len(ext)) ELSE b)

----------------------------------------------------------------------------
(* The disk *)

\* the canonical absolute path the operating system looks up for p
FsCanon(p) == pathResolve(<<p>>)

IsDirectory(c) == c = <<SLASH>> \/ \E f \in fsFiles : StartsWith(f, c \o <<SLASH>>)

\* fs.statSync(p): "file", "dir", or the error it throws
statSync(p) ==
    IF Len(p) = 0 THEN "ENOENT"
    ELSE With(FsCanon(p), LAMBDA c :
            IF c \in fsFiles
            THEN (IF p[Len(p)] = SLASH THEN "ENOTDIR" ELSE "file")
            ELSE IF IsDirectory(c) THEN "dir" ELSE "ENOENT")

\* fs.existsSync(p)
existsSync(p) == statSync(p) \in {"file", "dir"}

----------------------------------------------------------------------------
(* ModuleResolver *)

DefaultExtensions ==
    << <<DOT, "ts">>, <<DOT, "tsx">>, <<DOT, "js">>, <<DOT, "jsx">>, <<DOT, "mjs">>, <<DOT, "cjs">> >>

\* a value the host language treats as true in a condition (neither null nor '')
Truthy(x) == x # NULL /\ x # EmptyStr

\* a || b
OrElse(a, b) == IF Truthy(a) THEN a ELSE b

normalizePath(filePath) ==
    StripLeadingDotSlash(CollapseSlashes(BackslashesToSlashes(filePath)))

fileExists(filePath) == statSync(filePath) = "file"

\* the first configured extension, in list order, for which Cand(ext) exists; NULL when none
FirstExt(Cand(_)) ==
    With(FirstIndex({i \in 1..Len(extensions) : fileExists(Cand(extensions[i]))}), LAMBDA k :
        IF k = 0 THEN NULL ELSE Cand(extensions[k]))

tryExtensions(filePath) ==
    LET ext == extname(filePath)
        WithExt(e) == filePath \o e
    IN IF ext # EmptyStr /\ SeqIncludes(extensions, ext) /\ fileExists(filePath)
       THEN filePath
       ELSE FirstExt(WithExt)

tryIndex(dirPath) ==
    LET normalized == StripTrailingSlash(dirPath)
        IndexPath(e) == pathJoin(normalized, <<"index">> \o e)
    IN FirstExt(IndexPath)

resolveRelative_IndexFirst(specifier, fromFile) ==
    LET fromDir == dirname(fromFile)
    IN With(pathResolve(<<fromDir, specifier>>), LAMBDA resolved :
          OrElse(tryIndex(resolved), tryExtensions(resolved)))

resolveRelative(specifier, fromFile) ==
    LET fromDir == dirname(fromFile)
    IN With(pathResolve(<<fromDir, specifier>>), LAMBDA resolved :
          OrElse(tryExtensions(resolved), tryIndex(resolved)))

resolveAbsolute(specifier) ==
    With(IF isAbsolute(specifier) THEN specifier ELSE pathResolve(<<specifier>>), LAMBDA absolute :
        OrElse(tryExtensions(absolute), tryIndex(absolute)))

shouldUseBaseUrlResolution(specifier) ==
    LET isRelative == StartsWith(specifier, <<DOT, SLASH>>) \/ StartsWith(specifier, <<DOT, DOT, SLASH>>)
        isBare == ~Includes(specifier, SLASH)
        isNodeModule == Includes(specifier, "node_modules")
    IN ~isRelative /\ ~isBare /\ ~isNodeModule

resolveWithBaseUrl(specifier) ==
    IF ~Truthy(baseUrl) \/ baseUrl = NoBaseUrl THEN NULL
    ELSE With(pathResolve(<<baseUrl, specifier>>), LAMBDA resolvedPath :
         With(tryExtensions(resolvedPath), LAMBDA withExtension :
            IF Truthy(withExtension) THEN withExtension
            ELSE With(tryIndex(resolvedPath), LAMBDA withIndex :
                    IF Truthy(withIndex) THEN withIndex ELSE NULL)))

resolveImport_NoBareRule(specifier, fromFile) ==
    With(normalizePath(specifier), LAMBDA normalized :
       IF StartsWith(normalized, <<DOT, SLASH>>) \/ StartsWith(normalized, <<DOT, DOT, SLASH>>)
       THEN resolveRelative(normalized, fromFile)
       ELSE IF isAbsolute(normalized) THEN resolveAbsolute(normalized)
       ELSE resolveRelative(normalized, fromFile))

resolveImport(specifier, fromFile) ==
    With(normalizePath(specifier), LAMBDA normalized :
       IF StartsWith(normalized, <<DOT, SLASH>>) \/ StartsWith(normalized, <<DOT, DOT, SLASH>>)
       THEN resolveRelative(normalized, fromFile)
       ELSE IF isAbsolute(normalized)
       THEN resolveAbsolute(normalized)
       ELSE IF ~Includes(normalized, SLASH) /\ ~StartsWith(normalized, <<DOT>>)
       THEN normalized
       ELSE With(IF Truthy(baseUrl) /\ baseUrl # NoBaseUrl /\ shouldUseBaseUrlResolution(normalized)
                 THEN resolveWithBaseUrl(normalized)
                 ELSE NULL,
                 LAMBDA baseUrlResolved :
                    IF Truthy(baseUrlResolved) THEN baseUrlResolved
                    ELSE resolveRelative(normalized, fromFile)))

\* the extensions removeExtension strips, in its order
RemovableExtensions ==
    << <<DOT, "ts">>, <<DOT, "tsx">>, <<DOT, "js">>, <<DOT, "jsx">>, <<DOT, "mjs">>, <<DOT, "cjs">> >>

removeExtension_OnlyTs(filePath) ==
    IF EndsWith(filePath, <<DOT, "ts">>) THEN DropLast(filePath, 2) ELSE filePath

removeExtension(filePath) ==
    With(FirstIndex({i \in 1..Len(RemovableExtensions) : EndsWith(filePath, RemovableExtensions[i])}),
         LAMBDA k : IF k = 0 THEN filePath ELSE DropLast(filePath, Len(RemovableExtensions[k])))

pathsMatch(path1, path2) ==
    LET normalized1 == normalizePath(path1)
        normalized2 == normalizePath(path2)
        compare1 == IF platform = "win32" THEN toLowerCase(normalized1) ELSE normalized1
        compare2 == IF platform = "win32" THEN toLowerCase(normalized2) ELSE normalized2
    IN removeExtension(compare1) = removeExtension(compare2)

----------------------------------------------------------------------------
(* Syntax trees.  A parsed file is the sequence of its top-level statements, *)
(* each a node of the shape the parser of CodeParser.parseSource produces    *)
(* (createImportExpressions: import(...) is an ImportExpression node).  The  *)
(* line of a statement is its position in the file.                          *)

UNDEFINED == "undefined"

ImportSpecifier(imported, local) == [t |-> "ImportSpecifier", imported |-> imported, local |-> local]
ImportDefaultSpecifier(local) == [t |-> "ImportDefaultSpecifier", imported |-> <<"default">>, local |-> local]
ImportNamespaceSpecifier(local) == [t |-> "ImportNamespaceSpecifier", imported |-> <<"*">>, local |-> local]

\* import <specifiers> from '<source>'
ImportDeclaration(specs, source) == [t |-> "ImportDeclaration", source |-> source, specifiers |-> specs]

\* import('<source>') as a statement of its own
ImportExpression(source) == [t |-> "ImportExpression", source |-> source]

\* require('<source>')
RequireCall(source) ==
    [t |-> "CallExpression", callee |-> [t |-> "Identifier", name |-> "require"],
     arguments |-> << [t |-> "StringLiteral", value |-> source] >>]

\* <object>.<property>(() => import('<source>'))
MemberLazyCall(object, property, source) ==
    [t |-> "CallExpression",
     callee |-> [t |-> "MemberExpression", object |-> object, property |-> property],
     arguments |-> << [t |-> "ArrowFunctionExpression", body |-> ImportExpression(source)] >>]

\* <name>(() => import('<source>'))
WrapperLazyCall(name, source) ==
    [t |-> "CallExpression", callee |-> [t |-> "Identifier", name |-> name],
     arguments |-> << [t |-> "ArrowFunctionExpression", body |-> ImportExpression(source)] >>]

ExportSpecifier(local, exported) == [local |-> local, exported |-> exported]

\* export { <specifiers> } [from '<source>']; source is NULL for a local export
ExportNamedDeclaration(specs, source) ==
    [t |-> "ExportNamedDeclaration", source |-> source, specifiers |-> specs,
     declaration |-> [t |-> "none", name |-> NULL]]

\* export const|function|class <name> ...
ExportDeclared(declType, name) ==
    [t |-> "ExportNamedDeclaration", source |-> NULL, specifiers |-> <<>>,
     declaration |-> [t |-> declType, name |-> name]]

\* export default <declaration>; declType is Identifier, FunctionDeclaration,
\* ClassDeclaration or Expression, name is NULL for an anonymous declaration
ExportDefaultDeclaration(declType, name) ==
    [t |-> "ExportDefaultDeclaration", declaration |-> [t |-> declType, name |-> name]]

\* export * from '<source>'
ExportAllDeclaration(source) == [t |-> "ExportAllDeclaration", source |-> source]

\* const <id> = <init>
VariableDeclaration(id, init) == [t |-> "VariableDeclaration", id |-> id, init |-> init]

\* the statement node, written on line n of the file
OnLine(node, n) == [f \in DOMAIN node \cup {"line"} |-> IF f = "line" THEN n ELSE node[f]]

\* the argument of an import(...) that is no string literal
NonLiteral == <<"<expression>">>

----------------------------------------------------------------------------
(* ImportExtractor *)

RECURSIVE Flatten(_)
Flatten(seqs) == IF Len(seqs) = 0 THEN <<>> ELSE Head(seqs) \o Flatten(Tail(seqs))

\* node.loc.start.line of the i-th statement: a statement begins a new line unless
\* it is written on the line of an earlier statement
LineOf(node, i) == IF "line" \in DOMAIN node THEN node.line ELSE i

\* concatenation of the sequences PerStmt(ast[i], i), in statement order
FlatMap(ast, PerStmt(_, _)) == Flatten([i \in 1..Len(ast) |-> PerStmt(ast[i], i)])

\* the node of a statement that the visitors act on: the initializer of a declaration
\* const x = <init>, which the traversal reaches inside it, the statement itself otherwise
Visited(node) == IF node.t = "VariableDeclaration" THEN node.init ELSE node

\* a traversal of the program: the records the visitor pushes for each statement with
\* its line, in statement order
Traverse(ast, Visitor(_, _)) ==
    Flatten([i \in 1..Len(ast) |-> Visitor(Visited(ast[i]), LineOf(ast[i], i))])

ImportRecord(module, type, line, specifiers, kind) ==
    [module |-> module, type |-> type, line |-> line, column |-> 0,
     specifiers |-> specifiers, kind |-> kind, resolvedPath |-> NULL]

\* the name a specifier adds to Import.specifiers
SpecifierName(spec) == IF spec.t = "ImportSpecifier" THEN spec.imported ELSE spec.local

\* the kind the loop over the specifiers leaves: that of the last specifier
KindOf(specs) ==
    IF Len(specs) = 0 THEN "default"
    ELSE LET last == specs[Len(specs)].t
         IN IF last = "ImportSpecifier" THEN "named"
            ELSE IF last = "ImportDefaultSpecifier" THEN "default"
            ELSE "namespace"

StaticOfStmt(node, line) ==
    IF node.t = "ImportDeclaration"
    THEN << ImportRecord(node.source, "static", line,
                         [k \in 1..Len(node.specifiers) |-> SpecifierName(node.specifiers[k])],
                         KindOf(node.specifiers)) >>
    ELSE <<>>

extractStaticImports(ast) == Traverse(ast, StaticOfStmt)

\* the ImportExpression nodes a traversal of the statement meets
ImportExpressionsIn(node) ==
    IF node.t = "ImportExpression" THEN <<node>>
    ELSE IF node.t = "CallExpression" /\ Len(node.arguments) > 0
    THEN LET a == node.arguments[1]
         IN IF a.t = "ImportExpression" THEN <<a>>
            ELSE IF a.t = "ArrowFunctionExpression" /\ a.body.t = "ImportExpression" THEN <<a.body>>
            ELSE <<>>
    ELSE <<>>

DynamicOfStmt(node, line) ==
    LET found == ImportExpressionsIn(node)
    IN [k \in 1..Len(found) |->
           ImportRecord(IF found[k].source = NonLiteral THEN EmptyStr ELSE found[k].source,
                        "dynamic", line, NULL, UNDEFINED)]

extractDynamicImports(ast) == Traverse(ast, DynamicOfStmt)

RequireOfStmt(node, line) ==
    IF /\ node.t = "CallExpression"
       /\ node.callee.t = "Identifier"
       /\ node.callee.name = "require"
       /\ Len(node.arguments) > 0
       /\ node.arguments[1].t = "StringLiteral"
    THEN << ImportRecord(node.arguments[1].value, "require", line, NULL, UNDEFINED) >>
    ELSE <<>>

extractRequireCalls(ast) == Traverse(ast, RequireOfStmt)

\* t.isCallExpression(body) && t.isImport(body.callee): the module of an import call
\* written as a CallExpression node, '' otherwise
ImportCallModule(body) ==
    IF /\ body.t = "CallExpression"
       /\ body.callee.t = "Import"
       /\ Len(body.arguments) > 0
       /\ body.arguments[1].t = "StringLiteral"
    THEN body.arguments[1].value
    ELSE EmptyStr

LazyOfStmt(node, line) ==
    IF node.t # "CallExpression" THEN <<>>
    ELSE LET callee == node.callee
             args == node.arguments
             reactLazy ==
                 IF /\ callee.t = "MemberExpression"
                    /\ callee.object = "React"
                    /\ callee.property = "lazy"
                    /\ Len(args) > 0
                    /\ args[1].t = "ArrowFunctionExpression"
                 THEN ImportCallModule(args[1].body)
                 ELSE EmptyStr
             wrapper ==
                 IF /\ callee.t = "Identifier"
                    /\ callee.name \in {"dynamic", "loadable"}
                    /\ Len(args) > 0
                 THEN (IF args[1].t = "ArrowFunctionExpression"
                       THEN ImportCallModule(args[1].body)
                       ELSE ImportCallModule(args[1]))
                 ELSE EmptyStr
         IN (IF reactLazy # EmptyStr
             THEN << ImportRecord(reactLazy, "lazy", line, NULL, UNDEFINED) >> ELSE <<>>)
            \o
            (IF wrapper # EmptyStr
             THEN << ImportRecord(wrapper, "lazy", line, NULL, UNDEFINED) >> ELSE <<>>)

extractLazyImports(ast) == Traverse(ast, LazyOfStmt)

\* extractAll with every style enabled, flattened: static, dynamic, lazy, require
getAllImports(ast) ==
    extractStaticImports(ast) \o extractDynamicImports(ast)
        \o extractLazyImports(ast) \o extractRequireCalls(ast)

ExportRecord(name, localName, kind) == [name |-> name, localName |-> localName, kind |-> kind]

\* the visitors of extractExports that fire on one statement: the visitor of the node's
\* own type first, then the ExportDeclaration visitor
ExportsOfStmt(node, line) ==
    IF node.t = "ExportNamedDeclaration"
    THEN [k \in 1..Len(node.specifiers) |->
             ExportRecord(node.specifiers[k].exported, node.specifiers[k].local, "named")]
         \o (IF node.declaration.t \in {"VariableDeclaration", "FunctionDeclaration", "ClassDeclaration"}
                /\ node.declaration.name # NULL
             THEN << ExportRecord(node.declaration.name, node.declaration.name, "named") >>
             ELSE <<>>)
    ELSE IF node.t = "ExportDefaultDeclaration"
    THEN << ExportRecord(<<"default">>,
                         IF node.declaration.t \in {"Identifier", "FunctionDeclaration", "ClassDeclaration"}
                            /\ node.declaration.name # NULL
                         THEN node.declaration.name ELSE <<"default">>,
                         "default") >>
         \o (IF node.declaration.t \in {"FunctionDeclaration", "ClassDeclaration"}
                /\ node.declaration.name # NULL
             THEN << ExportRecord(node.declaration.name, node.declaration.name, "named") >>
             ELSE <<>>)
    ELSE <<>>

extractExports(ast) == Traverse(ast, ExportsOfStmt)

----------------------------------------------------------------------------
(* CodeParser *)

\* the names a statement declares in the module scope
DeclaredBy(node) ==
    IF node.t = "ImportDeclaration"
    THEN [k \in 1..Len(node.specifiers) |-> node.specifiers[k].local]
    ELSE IF node.t = "VariableDeclaration" THEN << node.id >>
    ELSE IF node.t \in {"ExportNamedDeclaration", "ExportDefaultDeclaration"}
            /\ node.declaration.t \in {"VariableDeclaration", "FunctionDeclaration", "ClassDeclaration"}
            /\ node.declaration.name # NULL
    THEN << node.declaration.name >>
    ELSE <<>>

\* the names a statement exports
ExportedBy(node) ==
    IF node.t = "ExportNamedDeclaration"
    THEN [k \in 1..Len(node.specifiers) |-> node.specifiers[k].exported] \o DeclaredBy(node)
    ELSE IF node.t = "ExportDefaultDeclaration" THEN << <<"default">> >>
    ELSE <<>>

\* the local names a statement exports from the module scope
LocallyExportedBy(node) ==
    IF node.t = "ExportNamedDeclaration" /\ node.source = NULL
    THEN [k \in 1..Len(node.specifiers) |-> node.specifiers[k].local]
    ELSE <<>>

NoRepeat(seq) == \A i, j \in 1..Len(seq) : seq[i] = seq[j] => i = j

\* the module-scope checks of the parser (sourceType: 'module'): no name declared twice,
\* no name exported twice, no export of an undeclared name
ParserAccepts(body) ==
    LET declared == Flatten([k \in 1..Len(body) |-> DeclaredBy(body[k])])
        exported == Flatten([k \in 1..Len(body) |-> ExportedBy(body[k])])
        locals == Flatten([k \in 1..Len(body) |-> LocallyExportedBy(body[k])])
    IN /\ NoRepeat(declared)
       /\ NoRepeat(exported)
       /\ \A k \in 1..Len(locals) : SeqIncludes(declared, locals[k])

\* a file whose text is a valid program with these statements
Parsed(body) == [ok |-> TRUE, body |-> body]

\* a file whose text the parser rejects
SyntaxError == [ok |-> FALSE, body |-> <<>>]

\* parseFile(filePath) returns a tree (it throws otherwise)
ParseSucceeds(filePath) == filePath \in DOMAIN corpus /\ corpus[filePath].ok

\* the tree parseFile(filePath) returns
parseFile(filePath) == corpus[filePath].body

----------------------------------------------------------------------------
(* ImportAnalyzer: the filters and the barrel tracing *)

\* .replace(/\.(js|jsx|ts|tsx)$/, '')
StripScriptExtension(s) ==
    IF Len(s) >= 2 /\ s[Len(s) - 1] = DOT /\ s[Len(s)] \in {"js", "jsx", "ts", "tsx"}
    THEN DropLast(s, 2) ELSE s

\* fs.existsSync(p) && fs.statSync(p).isFile()
ExistsAndIsFile(p) == existsSync(p) /\ statSync(p) = "file"

\* the predicate of the filter of filterImportsByModule
ImportMatchesModule_NullMatches(imp, moduleName, filePath, targetPath) ==
    With(resolveImport(imp.module, filePath), LAMBDA resolved :
       IF Truthy(targetPath) THEN Truthy(resolved) /\ pathsMatch(resolved, targetPath)
       ELSE IF ~Truthy(moduleName) THEN TRUE
       ELSE \/ imp.module = moduleName
            \/ (imp.specifiers # NULL /\ SeqIncludes(imp.specifiers, moduleName))
            \/ StripScriptExtension(basename(imp.module)) = moduleName)

ImportMatchesModule(imp, moduleName, filePath, targetPath) ==
    With(resolveImport(imp.module, filePath), LAMBDA resolved :
       IF ~Truthy(resolved) THEN FALSE
       ELSE IF Truthy(targetPath)
       THEN With(dirname(targetPath), LAMBDA targetDir :
            With(pathJoin(targetDir, <<"index", DOT, "ts">>), LAMBDA barrelPath :
            With(pathJoin(targetDir, <<"index", DOT, "js">>), LAMBDA barrelPathJs :
               \/ pathsMatch(resolved, targetPath)
               \/ (ExistsAndIsFile(barrelPath) /\ pathsMatch(resolved, barrelPath))
               \/ (ExistsAndIsFile(barrelPathJs) /\ pathsMatch(resolved, barrelPathJs)))))
       ELSE IF ~Truthy(moduleName) THEN TRUE
       ELSE \/ imp.module = moduleName
            \/ (imp.specifiers # NULL /\ SeqIncludes(imp.specifiers, moduleName))
            \/ StripScriptExtension(basename(resolved)) = moduleName
            \/ StripScriptExtension(basename(imp.module)) = moduleName)

\* imp.resolvedPath = resolved, done by the filter on every import that resolves
WithResolvedPath(imp, filePath) ==
    With(resolveImport(imp.module, filePath), LAMBDA resolved :
        IF Truthy(resolved) THEN [imp EXCEPT !.resolvedPath = resolved] ELSE imp)

filterImportsByModule(imports, moduleName, filePath, targetPath) ==
    LET Keep(imp) == ImportMatchesModule(imp, moduleName, filePath, targetPath)
    IN With(SelectSeq(imports, Keep), LAMBDA kept :
          [k \in 1..Len(kept) |-> WithResolvedPath(kept[k], filePath)])

TypeEnabled(type) ==
    CASE type = "static" -> options.detectStatic
      [] type = "dynamic" -> options.detectDynamic
      [] type = "lazy" -> options.detectLazy
      [] type = "require" -> options.detectRequire
      [] OTHER -> TRUE

filterImportsByType_KeepAll(imports) == imports

filterImportsByType(imports) ==
    LET Keep(imp) == TypeEnabled(imp.type)
    IN SelectSeq(imports, Keep)

NotABarrel == [isBarrel |-> FALSE, exportedNames |-> <<>>]

\* the names one export record adds to exportedNames for the import targetImport
ReExportedBy(exp, targetImport) ==
    IF targetImport.kind = "default" /\ exp.name = <<"default">>
    THEN << <<"default">> >>
    ELSE IF targetImport.specifiers # NULL /\ SeqIncludes(targetImport.specifiers, exp.localName)
    THEN << exp.name >>
    ELSE IF /\ targetImport.kind = "default"
            /\ targetImport.specifiers # NULL
            /\ Len(targetImport.specifiers) > 0
            /\ exp.localName = targetImport.specifiers[1]
    THEN << exp.name >>
    ELSE <<>>

\* imports.find(...): the index of the first import that resolves to the target, 0 when none
FindTargetImport(imports, barrelFilePath, targetModulePath) ==
    FirstIndex({k \in 1..Len(imports) :
                  With(resolveImport(imports[k].module, barrelFilePath), LAMBDA resolved :
                       Truthy(resolved) /\ pathsMatch(resolved, targetModulePath))})

isBarrelForModule(barrelFilePath, targetModulePath) ==
    IF ~ParseSucceeds(barrelFilePath) THEN NotABarrel
    ELSE With(getAllImports(parseFile(barrelFilePath)), LAMBDA imports :
         With(extractExports(parseFile(barrelFilePath)), LAMBDA exports :
         With(FindTargetImport(imports, barrelFilePath, targetModulePath), LAMBDA t :
            IF t = 0 THEN NotABarrel
            ELSE With(Flatten([k \in 1..Len(exports) |-> ReExportedBy(exports[k], imports[t])]),
                      LAMBDA exportedNames :
                         [isBarrel |-> Len(exportedNames) > 0, exportedNames |-> exportedNames]))))

\* the imports of one cached file that findBarrelConsumers reports for the barrel
ConsumerImports(filePath, allImports, barrelFilePath, exportedNames) ==
    LET FromBarrel(imp) ==
            With(resolveImport(imp.module, filePath), LAMBDA resolved :
                 Truthy(resolved) /\ pathsMatch(resolved, barrelFilePath))
        Wanted(imp) ==
            IF imp.specifiers = NULL THEN TRUE
            ELSE \E n \in 1..Len(exportedNames) :
                    \/ SeqIncludes(imp.specifiers, exportedNames[n])
                    \/ (exportedNames[n] = <<"default">> /\ imp.kind = "default")
    IN SelectSeq(SelectSeq(allImports, FromBarrel), Wanted)

\* a walk that expands a barrel whether it is in the visited set or not
findBarrelConsumers_Revisits(barrelFilePath, exportedNames, fileImportsMap, visited) ==
    LET PerEntry(entry, k) ==
            IF entry.file = barrelFilePath
               \/ Len(ConsumerImports(entry.file, entry.imports, barrelFilePath, exportedNames)) = 0
            THEN <<>>
            ELSE << [file |-> entry.file,
                     imports |-> ConsumerImports(entry.file, entry.imports,
                                                 barrelFilePath, exportedNames)] >>
    IN [results |-> FlatMap(fileImportsMap, PerEntry),
        visited |-> visited \cup {barrelFilePath}]

\* findBarrelConsumers: the consumers found and the visited set it leaves;
\* fileImportsMap is the cache as a sequence of [file, imports] in insertion order
findBarrelConsumers(barrelFilePath, exportedNames, fileImportsMap, visited) ==
    IF barrelFilePath \in visited
    THEN [results |-> <<>>, visited |-> visited]
    ELSE LET PerEntry(entry, k) ==
                 IF entry.file = barrelFilePath THEN <<>>
                 ELSE With(ConsumerImports(entry.file, entry.imports, barrelFilePath, exportedNames),
                           LAMBDA matching :
                              IF Len(matching) > 0
                              THEN << [file |-> entry.file, imports |-> matching] >>
                              ELSE <<>>)
         IN [results |-> FlatMap(fileImportsMap, PerEntry),
             visited |-> visited \cup {barrelFilePath}]

----------------------------------------------------------------------------
(* FileDiscovery *)

\* the order of the characters the tokens begin with, as Array.prototype.sort compares them
TokRank(tok) ==
    CASE tok = DOT -> 1
      [] tok = SLASH -> 2
      [] tok = "A" -> 3
      [] tok = "B" -> 4
      [] tok = "C" -> 5
      [] tok = "H" -> 6
      [] tok = "S" -> 7
      [] tok = "T" -> 8
      [] tok = "Z" -> 9
      [] tok = BSLASH -> 10
      [] tok = "base" -> 11
      [] tok = "cmp" -> 12
      [] tok = "index" -> 13
      [] tok = "js" -> 14
      [] tok = "jsx" -> 15
      [] tok = "mjs" -> 16
      [] tok = "node_modules" -> 17
      [] tok = "pages" -> 18
      [] tok = "src" -> 19
      [] tok = "ts" -> 20
      [] tok = "tsx" -> 21
      [] OTHER -> 22

\* a < b as strings
StrLess(a, b) ==
    \E k \in 1..(Len(a) + 1) :
        /\ k <= Len(b)
        /\ SubSeq(a, 1, k - 1) = SubSeq(b, 1, k - 1)
        /\ (k = Len(a) + 1 \/ TokRank(a[k]) < TokRank(b[k]))

RECURSIVE SortedSeq_Descending(_)
\* a sort from the greatest path to the least
SortedSeq_Descending(S) ==
    IF S = {} THEN <<>>
    ELSE LET m == CHOOSE x \in S : \A y \in S \ {x} : StrLess(y, x)
         IN <<m>> \o SortedSeq_Descending(S \ {m})

RECURSIVE SortedSeq(_)
\* files.sort()
SortedSeq(S) ==
    IF S = {} THEN <<>>
    ELSE LET m == CHOOSE x \in S : \A y \in S \ {x} : StrLess(x, y)
         IN <<m>> \o SortedSeq(S \ {m})

\* DEFAULT_INCLUDE_PATTERNS: **/*.{js,jsx,ts,tsx,mjs}
MatchesInclude(f) ==
    LET b == basename(f)
    IN Len(b) >= 3 /\ b[1] # DOT /\ b[Len(b) - 1] = DOT /\ b[Len(b)] \in {"js", "jsx", "ts", "tsx", "mjs"}

\* DEFAULT_EXCLUDE_PATTERNS: a directory of the path below the root is one of these
ExcludedDirs == { <<"node_modules">>, <<"dist">>, <<"build">>, <<DOT, "git">>, <<"coverage">> }

MatchesExclude(rel) ==
    LET segs == Split(rel)
    IN \E k \in 1..(Len(segs) - 1) : segs[k] \in ExcludedDirs

\* findFiles(searchPath) fails: the search root does not exist
\* an enumeration that never fails
findFilesThrows_Never(searchPath) == FALSE

findFilesThrows(searchPath) == ~existsSync(searchPath)

\* the sorted list findFiles(searchPath) resolves to
findFiles(searchPath) ==
    With(FsCanon(searchPath), LAMBDA root :
    With(IF root = <<SLASH>> THEN root ELSE root \o <<SLASH>>, LAMBDA prefix :
        SortedSeq({f \in fsFiles :
                     /\ StartsWith(f, prefix)
                     /\ MatchesInclude(f)
                     /\ ~MatchesExclude(Slice(f, Len(prefix) + 1, Len(f)))})))

----------------------------------------------------------------------------
(* ImportAnalyzer.findFilesImporting *)

BATCH_SIZE == 20

resolveTargetPath(searchPath) ==
    IF ~Truthy(options.modulePath) THEN NULL
    ELSE LET modulePath == options.modulePath
         IN With(IF isAbsolute(modulePath) THEN modulePath ELSE pathResolve(<<Cwd, modulePath>>),
                 LAMBDA absolutePath :
                    IF extname(absolutePath) # EmptyStr THEN absolutePath
                    ELSE resolveImport(absolutePath, searchPath))

\* a loop body that caches a file whose parse failed, with no imports
ProcessFile_FailedCached(st, filePath, moduleName, targetPath) ==
    IF ~ParseSucceeds(filePath)
    THEN [st EXCEPT !.failedFiles = Append(@, filePath),
                    !.fileImportsMap = Append(@, [file |-> filePath, imports |-> <<>>])]
    ELSE With(getAllImports(parseFile(filePath)), LAMBDA allImports :
         With(filterImportsByType(filterImportsByModule(allImports, moduleName, filePath, targetPath)),
              LAMBDA filteredImports :
            [st EXCEPT
                !.fileImportsMap = Append(@, [file |-> filePath,
                                              imports |-> [k \in 1..Len(allImports) |->
                                                              WithResolvedPath(allImports[k], filePath)]]),
                !.results = IF Len(filteredImports) > 0
                            THEN Append(@, [file |-> filePath, imports |-> filteredImports])
                            ELSE @]))

\* the body of the loop over one file of a batch; st holds results, fileImportsMap, failedFiles
ProcessFile(st, filePath, moduleName, targetPath) ==
    IF ~ParseSucceeds(filePath)
    THEN [st EXCEPT !.failedFiles = Append(@, filePath)]
    ELSE With(getAllImports(parseFile(filePath)), LAMBDA allImports :
         With(filterImportsByModule(allImports, moduleName, filePath, targetPath), LAMBDA matchingImports :
         With(filterImportsByType(matchingImports), LAMBDA filteredImports :
            LET cached == [k \in 1..Len(allImports) |-> WithResolvedPath(allImports[k], filePath)]
            IN [st EXCEPT
                   !.fileImportsMap = Append(@, [file |-> filePath, imports |-> cached]),
                   !.results = IF Len(filteredImports) > 0
                               THEN Append(@, [file |-> filePath, imports |-> filteredImports])
                               ELSE @])))

RECURSIVE ProcessBatch(_, _, _, _)
ProcessBatch(st, batch, moduleName, targetPath) ==
    IF Len(batch) = 0 THEN st
    ELSE ProcessBatch(ProcessFile(st, Head(batch), moduleName, targetPath),
                      Tail(batch), moduleName, targetPath)

IsDuplicate(imports, imp) ==
    \E k \in 1..Len(imports) :
        /\ imports[k].module = imp.module
        /\ imports[k].line = imp.line
        /\ imports[k].type = imp.type

\* a merge that pushes every import of the consumer
PushNew_All(existing, imports) == existing \o imports

RECURSIVE PushNew(_, _)
\* push the imports that are no duplicate of one already in existing
PushNew(existing, imports) ==
    IF Len(imports) = 0 THEN existing
    ELSE PushNew(IF IsDuplicate(existing, Head(imports)) THEN existing
                 ELSE Append(existing, Head(imports)),
                 Tail(imports))

RECURSIVE MergeConsumers_AlwaysPush(_, _)
\* a loop that pushes an entry for every consumer, in results already or not
MergeConsumers_AlwaysPush(results, consumers) ==
    IF Len(consumers) = 0 THEN results
    ELSE MergeConsumers_AlwaysPush(
             IF Len(filterImportsByType(Head(consumers).imports)) = 0 THEN results
             ELSE Append(results, [file |-> Head(consumers).file,
                                   imports |-> filterImportsByType(Head(consumers).imports)]),
             Tail(consumers))

RECURSIVE MergeConsumers(_, _)
\* the loop that adds the consumers of one barrel to results
MergeConsumers(results, consumers) ==
    IF Len(consumers) = 0 THEN results
    ELSE LET consumer == Head(consumers)
             filteredConsumerImports == filterImportsByType(consumer.imports)
             found == {k \in 1..Len(results) : results[k].file = consumer.file}
         IN IF Len(filteredConsumerImports) = 0
            THEN MergeConsumers(results, Tail(consumers))
            ELSE IF found # {}
            THEN LET k == CHOOSE x \in found : \A y \in found : x <= y
                 IN MergeConsumers(
                        [results EXCEPT ![k].imports = PushNew(@, filteredConsumerImports)],
                        Tail(consumers))
            ELSE MergeConsumers(
                     Append(results, [file |-> consumer.file, imports |-> filteredConsumerImports]),
                     Tail(consumers))

RECURSIVE BarrelPass(_, _, _, _, _)
\* the loop over results (entries appended during the loop are visited too), from entry k
BarrelPass(k, results, visitedBarrels, fileImportsMap, targetPath) ==
    IF k > Len(results) THEN [results |-> results, visitedBarrels |-> visitedBarrels]
    ELSE With(isBarrelForModule(results[k].file, targetPath), LAMBDA barrelCheck :
            IF ~barrelCheck.isBarrel
            THEN BarrelPass(k + 1, results, visitedBarrels, fileImportsMap, targetPath)
            ELSE With(findBarrelConsumers(results[k].file, barrelCheck.exportedNames,
                                          fileImportsMap, visitedBarrels),
                      LAMBDA walk :
                         BarrelPass(k + 1, MergeConsumers(results, walk.results),
                                    walk.visited, fileImportsMap, targetPath)))

Min(a, b) == IF a < b THEN a ELSE b

\* a report of the index the batch began at
ProgressReport_BatchStart(i, files) == <<i, Len(files)>>

\* the arguments (current, total) of progressCallback after the batch that began at i
ProgressReport(i, files) == <<Min(i + BATCH_SIZE, Len(files)), Len(files)>>

\* no findFilesImporting is running; parseLog lists the calls of parser.parseFile of the
\* operation: one for each file of a batch, then one by isBarrelForModule for each entry
\* the barrel pass visits
FindIdle ==
    [pc |-> "idle", moduleName |-> NULL, searchPath |-> NULL, progressCallback |-> FALSE,
     files |-> <<>>, i |-> 0, targetPath |-> NULL,
     results |-> <<>>, fileImportsMap |-> <<>>, failedFiles |-> <<>>,
     visitedBarrels |-> {}, k |-> 0, progress |-> <<>>, parseLog |-> <<>>]

\* the call: runs up to the await of fileDiscovery.findFiles
FindFilesImportingCall(moduleName, searchPath, progressCallback) ==
    /\ find.pc = "idle"
    /\ call = [op |-> "none"]
    /\ find' = [FindIdle EXCEPT !.pc = "awaitFiles", !.moduleName = moduleName,
                                !.searchPath = searchPath, !.progressCallback = progressCallback]
    /\ call' = [op |-> "findFilesImporting", moduleName |-> moduleName, searchPath |-> searchPath]
    /\ UNCHANGED <<fsFiles, extensions, baseUrl, platform, corpus, options, ret, scan>>

\* findFiles rejected: the catch block rethrows and the operation rejects
FindRejects ==
    /\ find.pc = "awaitFiles"
    /\ findFilesThrows(find.searchPath)
    /\ find' = [find EXCEPT !.pc = "rejected"]
    /\ ret' = <<"Error">>
    /\ UNCHANGED <<fsFiles, extensions, baseUrl, platform, corpus, options, call, scan>>

\* the list of files and the loop index with which the function resumes
FilesOnResume == IF find.pc = "awaitFiles" THEN findFiles(find.searchPath) ELSE find.files
\* a loop whose step is one more than the size of a batch
IndexOnResume_StepTooFar == IF find.pc = "awaitFiles" THEN 0 ELSE find.i + BATCH_SIZE + 1

IndexOnResume == IF find.pc = "awaitFiles" THEN 0 ELSE find.i + BATCH_SIZE
TargetOnResume == IF find.pc = "awaitFiles" THEN resolveTargetPath(find.searchPath) ELSE find.targetPath

CanResume ==
    \/ find.pc = "awaitFiles" /\ ~findFilesThrows(find.searchPath)
    \/ find.pc = "yielded"

\* one turn of the batch loop with these locals: the locals when setImmediate is awaited
BatchTurn(files, i, targetPath) ==
    With(ProcessBatch([results |-> find.results,
                       fileImportsMap |-> find.fileImportsMap,
                       failedFiles |-> find.failedFiles],
                      SubSeq(files, i + 1, Min(i + BATCH_SIZE, Len(files))),
                      find.moduleName, targetPath),
         LAMBDA st :
            [find EXCEPT
                !.pc = "yielded", !.files = files, !.i = i, !.targetPath = targetPath,
                !.results = st.results,
                !.fileImportsMap = st.fileImportsMap,
                !.failedFiles = st.failedFiles,
                !.parseLog = @ \o SubSeq(files, i + 1, Min(i + BATCH_SIZE, Len(files))),
                !.progress = IF find.progressCallback
                             THEN Append(@, ProgressReport(i, files))
                             ELSE @])

\* the function resumes and the loop has a batch left: it processes the batch, reports
\* progress and awaits setImmediate
FindProcessesBatch ==
    /\ CanResume
    /\ IndexOnResume < Len(FilesOnResume)
    /\ find' = BatchTurn(FilesOnResume, IndexOnResume, TargetOnResume)
    /\ UNCHANGED <<fsFiles, extensions, baseUrl, platform, corpus, options, call, ret, scan>>

\* the function resumes and the loop is over: the barrel pass runs and the results return
\* the end of the function with these locals: the barrel pass, then the locals at the return
LastTurn(files, i, targetPath) ==
    With(IF Truthy(targetPath)
         THEN BarrelPass(1, find.results, find.visitedBarrels, find.fileImportsMap, targetPath)
         ELSE [results |-> find.results, visitedBarrels |-> find.visitedBarrels],
         LAMBDA pass :
            [find EXCEPT !.pc = "done", !.files = files, !.i = i, !.targetPath = targetPath,
                         !.results = pass.results,
                         !.visitedBarrels = pass.visitedBarrels,
                         !.k = IF Truthy(targetPath) THEN Len(pass.results) + 1 ELSE @,
                         !.parseLog = IF Truthy(targetPath)
                                      THEN @ \o [k \in 1..Len(pass.results) |-> pass.results[k].file]
                                      ELSE @])

FindReturns ==
    /\ CanResume
    /\ IndexOnResume >= Len(FilesOnResume)
    /\ find' = LastTurn(FilesOnResume, IndexOnResume, TargetOnResume)
    /\ ret' = find'.results
    /\ UNCHANGED <<fsFiles, extensions, baseUrl, platform, corpus, options, call, scan>>

\* the function resumes, the batch loop is over and a target is set: the barrel pass
\* begins at the first entry of results (k is the position of the for...of iterator)
FindEntersBarrelPass ==
    /\ CanResume
    /\ IndexOnResume >= Len(FilesOnResume)
    /\ Truthy(TargetOnResume)
    /\ find' = [find EXCEPT !.pc = "barrelPass", !.files = FilesOnResume,
                            !.i = IndexOnResume, !.targetPath = TargetOnResume, !.k = 1]
    /\ UNCHANGED <<fsFiles, extensions, baseUrl, platform, corpus, options, call, ret, scan>>

\* one iteration of the loop over results: the barrel check of entry k and, for a
\* barrel, the merge of its consumers
VisitEntry ==
    With(isBarrelForModule(find.results[find.k].file, find.targetPath), LAMBDA barrelCheck :
        IF ~barrelCheck.isBarrel
        THEN [find EXCEPT !.k = @ + 1, !.parseLog = Append(@, find.results[find.k].file)]
        ELSE With(findBarrelConsumers(find.results[find.k].file, barrelCheck.exportedNames,
                                      find.fileImportsMap, find.visitedBarrels),
                  LAMBDA walk :
                     [find EXCEPT !.k = @ + 1,
                                  !.parseLog = Append(@, find.results[find.k].file),
                                  !.results = MergeConsumers(@, walk.results),
                                  !.visitedBarrels = walk.visited]))

FindVisitsEntry ==
    /\ find.pc = "barrelPass"
    /\ find.k <= Len(find.results)
    /\ find' = VisitEntry
    /\ UNCHANGED <<fsFiles, extensions, baseUrl, platform, corpus, options, call, ret, scan>>

\* the iterator is past the last entry of results: the function returns results
FindLeavesBarrelPass ==
    /\ find.pc = "barrelPass"
    /\ find.k > Len(find.results)
    /\ find' = [find EXCEPT !.pc = "done"]
    /\ ret' = find.results
    /\ UNCHANGED <<fsFiles, extensions, baseUrl, platform, corpus, options, call, scan>>

----------------------------------------------------------------------------
(* ImportAnalyzer.analyzeProject, findUnusedFiles and buildImportMap *)

\* ImportExtractor.extractAll(ast, opts): the four lists, a disabled style left empty
extractAll(ast, opts) ==
    [static |-> IF opts.static THEN extractStaticImports(ast) ELSE <<>>,
     dynamic |-> IF opts.dynamic THEN extractDynamicImports(ast) ELSE <<>>,
     lazy |-> IF opts.lazy THEN extractLazyImports(ast) ELSE <<>>,
     require |-> IF opts.require THEN extractRequireCalls(ast) ELSE <<>>]

\* the options analyzeProject hands to extractAll
DetectOptions ==
    [static |-> options.detectStatic, dynamic |-> options.detectDynamic,
     lazy |-> options.detectLazy, require |-> options.detectRequire]

NoTotals == [static |-> 0, dynamic |-> 0, lazy |-> 0, require |-> 0]

\* the body of the loop of analyzeProject over one file; st holds filesMap and the totals
AnalyzeOneFile(st, filePath) ==
    IF ~ParseSucceeds(filePath) THEN st
    ELSE With(extractAll(parseFile(filePath), DetectOptions), LAMBDA fileImports :
            [filesMap |-> Append(st.filesMap, [file |-> filePath, imports |-> fileImports]),
             totals |-> [static |-> st.totals.static + Len(fileImports.static),
                         dynamic |-> st.totals.dynamic + Len(fileImports.dynamic),
                         lazy |-> st.totals.lazy + Len(fileImports.lazy),
                         require |-> st.totals.require + Len(fileImports.require)]])

RECURSIVE AnalyzeBatch(_, _)
AnalyzeBatch(st, batch) ==
    IF Len(batch) = 0 THEN st
    ELSE AnalyzeBatch(AnalyzeOneFile(st, Head(batch)), Tail(batch))

\* the ProjectAnalysis analyzeProject returns
ProjectAnalysis(filesMap, totals) ==
    [totalFiles |-> Len(filesMap),
     totalImports |-> totals.static + totals.dynamic + totals.lazy + totals.require,
     files |-> filesMap,
     summary |-> totals]

\* [...fileData.static, ...fileData.dynamic, ...fileData.lazy, ...fileData.require]
AllImportsOf(fileData) ==
    fileData.static \o fileData.dynamic \o fileData.lazy \o fileData.require

\* the loop over the files and their imports: the (file, resolved) pairs of the imports
\* that resolve, in iteration order
ResolvedPairs(filesMap) ==
    LET PerImport(filePath, imp) ==
            With(resolveImport(imp.module, filePath), LAMBDA resolved :
                 IF Truthy(resolved) THEN << [file |-> filePath, target |-> resolved] >> ELSE <<>>)
        PerFile(entry, k) ==
            With(AllImportsOf(entry.imports), LAMBDA allImports :
                 Flatten([j \in 1..Len(allImports) |-> PerImport(entry.file, allImports[j])]))
    IN FlatMap(filesMap, PerFile)

\* the set importedFiles of findUnusedFiles
ImportedFiles(filesMap) ==
    With(ResolvedPairs(filesMap), LAMBDA pairs : {pairs[k].target : k \in 1..Len(pairs)})

\* exp.source || exp.localName
ExportImportPath(exp) ==
    IF "source" \in DOMAIN exp /\ Truthy(exp.source) THEN exp.source ELSE exp.localName

IndexTs == <<"index", DOT, "ts">>
IndexJs == <<"index", DOT, "js">>

\* the files one index file is recorded as exporting
BarrelExportsOf(filePath) ==
    LET PerExport(exp, k) ==
            With(resolveImport(ExportImportPath(exp), filePath), LAMBDA resolvedExport :
                 IF Truthy(resolvedExport) /\ resolvedExport # filePath
                 THEN << resolvedExport >> ELSE <<>>)
    IN FlatMap(extractExports(parseFile(filePath)), PerExport)

\* the map barrelExports, as a sequence of [barrel, files] in insertion order
BarrelExports(filesMap) ==
    LET PerFile(entry, k) ==
            IF basename(entry.file) \notin {IndexTs, IndexJs} THEN <<>>
            ELSE With(BarrelExportsOf(entry.file), LAMBDA exported :
                      IF Len(exported) > 0
                      THEN << [barrel |-> entry.file, files |-> exported] >> ELSE <<>>)
    IN FlatMap(filesMap, PerFile)

\* String.prototype.includes
StrIncludes(s, sub) ==
    \E k \in 0..(Len(s) - Len(sub)) : SubSeq(s, k + 1, k + Len(sub)) = sub

\* the last loop of findUnusedFiles
UnusedFiles(filesMap, filePattern) ==
    With(ImportedFiles(filesMap), LAMBDA importedFiles :
    With(BarrelExports(filesMap), LAMBDA barrelExports :
        LET PerFile(entry, k) ==
                IF Truthy(filePattern) /\ ~StrIncludes(entry.file, filePattern) THEN <<>>
                ELSE IF entry.file \in importedFiles THEN <<>>
                ELSE IF \E b \in 1..Len(barrelExports) :
                            /\ SeqIncludes(barrelExports[b].files, entry.file)
                            /\ barrelExports[b].barrel \in importedFiles
                THEN <<>>
                ELSE << [filePath |-> entry.file, reason |-> "No imports found"] >>
        IN FlatMap(filesMap, PerFile)))

RECURSIVE RecordImporters_NoIncludesTest(_, _)
RecordImporters_NoIncludesTest(importedBy, pairs) ==
    IF Len(pairs) = 0 THEN importedBy
    ELSE With(FirstIndex({k \in 1..Len(importedBy) : importedBy[k].target = Head(pairs).target}),
              LAMBDA at :
                 RecordImporters_NoIncludesTest(
                     IF at = 0
                     THEN Append(importedBy, [target |-> Head(pairs).target,
                                              files |-> << Head(pairs).file >>])
                     ELSE [importedBy EXCEPT ![at].files = Append(@, Head(pairs).file)],
                     Tail(pairs)))

RECURSIVE RecordImporters(_, _)
\* the loop that fills importedBy, a sequence of [target, files] in insertion order
RecordImporters(importedBy, pairs) ==
    IF Len(pairs) = 0 THEN importedBy
    ELSE With(FirstIndex({k \in 1..Len(importedBy) : importedBy[k].target = Head(pairs).target}),
              LAMBDA at :
                 RecordImporters(
                     IF at = 0
                     THEN Append(importedBy, [target |-> Head(pairs).target,
                                              files |-> << Head(pairs).file >>])
                     ELSE IF SeqIncludes(importedBy[at].files, Head(pairs).file)
                     THEN importedBy
                     ELSE [importedBy EXCEPT ![at].files = Append(@, Head(pairs).file)],
                     Tail(pairs)))

RECURSIVE CountImports(_, _)
\* the loop that fills importCounts, a sequence of [filePath, importCount] in insertion order
CountImports(importCounts, pairs) ==
    IF Len(pairs) = 0 THEN importCounts
    ELSE With(FirstIndex({k \in 1..Len(importCounts) :
                            importCounts[k].filePath = Head(pairs).target}),
              LAMBDA at :
                 CountImports(
                     IF at = 0
                     THEN Append(importCounts, [filePath |-> Head(pairs).target, importCount |-> 1])
                     ELSE [importCounts EXCEPT ![at].importCount = @ + 1],
                     Tail(pairs)))

RECURSIVE SortByCountDesc(_)
\* .sort((a, b) => b[1] - a[1]): descending by count, equal counts keep their order
SortByCountDesc(entries) ==
    IF Len(entries) = 0 THEN <<>>
    ELSE With(FirstIndex({k \in 1..Len(entries) :
                            \A j \in 1..Len(entries) : entries[j].importCount <= entries[k].importCount}),
              LAMBDA m :
                 << entries[m] >>
                     \o SortByCountDesc(SubSeq(entries, 1, m - 1) \o SubSeq(entries, m + 1, Len(entries))))

ListedFiles == 10

Reverse(seq) == [k \in 1..Len(seq) |-> seq[Len(seq) + 1 - k]]

RECURSIVE SumCounts(_)
SumCounts(entries) ==
    IF Len(entries) = 0 THEN 0 ELSE Head(entries).importCount + SumCounts(Tail(entries))

\* the ImportMap buildImportMap returns; imports is analysis.files
ImportMap(filesMap) ==
    With(ResolvedPairs(filesMap), LAMBDA pairs :
    With(SortByCountDesc(CountImports(<<>>, pairs)), LAMBDA sortedByImportCount :
        [imports |-> filesMap,
         importedBy |-> RecordImporters(<<>>, pairs),
         stats |-> [totalFiles |-> Len(filesMap),
                    totalImports |-> SumCounts(sortedByImportCount),
                    mostImportedFiles |->
                        SubSeq(sortedByImportCount, 1, Min(ListedFiles, Len(sortedByImportCount))),
                    leastImportedFiles |->
                        Reverse(SubSeq(sortedByImportCount,
                                       Len(sortedByImportCount) - Min(ListedFiles, Len(sortedByImportCount)) + 1,
                                       Len(sortedByImportCount)))]]))

\* no analyzeProject is running
ScanIdle ==
    [pc |-> "idle", op |-> "none", searchPath |-> NULL, filePattern |-> NULL,
     progressCallback |-> FALSE, files |-> <<>>, i |-> 0,
     filesMap |-> <<>>, totals |-> NoTotals, progress |-> <<>>]

\* the call of analyzeProject, or of findUnusedFiles or buildImportMap, which call it
\* first: runs up to the await of fileDiscovery.findFiles
ScanCall(op, searchPath, filePattern, progressCallback) ==
    /\ scan.pc = "idle"
    /\ call = [op |-> "none"]
    /\ scan' = [ScanIdle EXCEPT !.pc = "awaitFiles", !.op = op, !.searchPath = searchPath,
                                !.filePattern = filePattern,
                                !.progressCallback = progressCallback]
    /\ call' = [op |-> op, searchPath |-> searchPath, filePattern |-> filePattern]
    /\ UNCHANGED <<fsFiles, extensions, baseUrl, platform, corpus, options, ret, find>>

\* findFiles rejected: analyzeProject rethrows, and so does the operation awaiting it
ScanRejects ==
    /\ scan.pc = "awaitFiles"
    /\ findFilesThrows(scan.searchPath)
    /\ scan' = [scan EXCEPT !.pc = "rejected"]
    /\ ret' = <<"Error">>
    /\ UNCHANGED <<fsFiles, extensions, baseUrl, platform, corpus, options, call, find>>

ScanFilesOnResume == IF scan.pc = "awaitFiles" THEN findFiles(scan.searchPath) ELSE scan.files
ScanIndexOnResume == IF scan.pc = "awaitFiles" THEN 0 ELSE scan.i + BATCH_SIZE

ScanCanResume ==
    \/ scan.pc = "awaitFiles" /\ ~findFilesThrows(scan.searchPath)
    \/ scan.pc = "yielded"

\* one turn of the batch loop of analyzeProject: the locals when setImmediate is awaited
ScanTurn(files, i) ==
    With(AnalyzeBatch([filesMap |-> scan.filesMap, totals |-> scan.totals],
                      SubSeq(files, i + 1, Min(i + BATCH_SIZE, Len(files)))),
         LAMBDA st :
            [scan EXCEPT
                !.pc = "yielded", !.files = files, !.i = i,
                !.filesMap = st.filesMap, !.totals = st.totals,
                !.progress = IF scan.progressCallback
                             THEN Append(@, ProgressReport(i, files))
                             ELSE @])

ScanProcessesBatch ==
    /\ ScanCanResume
    /\ ScanIndexOnResume < Len(ScanFilesOnResume)
    /\ scan' = ScanTurn(ScanFilesOnResume, ScanIndexOnResume)
    /\ UNCHANGED <<fsFiles, extensions, baseUrl, platform, corpus, options, call, ret, find>>

\* the loop is over: analyzeProject resolves with the analysis
AnalyzeProjectReturns ==
    /\ ScanCanResume
    /\ ScanIndexOnResume >= Len(ScanFilesOnResume)
    /\ scan' = [scan EXCEPT !.pc = IF scan.op = "analyzeProject" THEN "done" ELSE "analyzed",
                            !.files = ScanFilesOnResume, !.i = ScanIndexOnResume]
    /\ ret' = IF scan.op = "analyzeProject" THEN ProjectAnalysis(scan.filesMap, scan.totals) ELSE ret
    /\ UNCHANGED <<fsFiles, extensions, baseUrl, platform, corpus, options, call, find>>

\* findUnusedFiles resumes with the analysis and returns the unused files
FindUnusedFilesReturns ==
    /\ scan.pc = "analyzed"
    /\ scan.op = "findUnusedFiles"
    /\ scan' = [scan EXCEPT !.pc = "done"]
    /\ ret' = UnusedFiles(scan.filesMap, scan.filePattern)
    /\ UNCHANGED <<fsFiles, extensions, baseUrl, platform, corpus, options, call, find>>

\* buildImportMap resumes with the analysis and returns the map
BuildImportMapReturns ==
    /\ scan.pc = "analyzed"
    /\ scan.op = "buildImportMap"
    /\ scan' = [scan EXCEPT !.pc = "done"]
    /\ ret' = ImportMap(scan.filesMap)
    /\ UNCHANGED <<fsFiles, extensions, baseUrl, platform, corpus, options, call, find>>

----------------------------------------------------------------------------
(* Bounded inputs *)

\* longest generated specifier, in tokens
MaxSpecLen == 2

\* most files on the disk of the resolver runs
MaxFsFiles == 2

\* longest generated path handed to pathsMatch, in tokens
MaxPathLen == 2

\* all strings over alphabet of at most n tokens
StrsUpTo(alphabet, n) == UNION {[1..k -> alphabet] : k \in 0..n}

P_src == <<SLASH, "src">>
P_base == <<SLASH, "base">>
F_T_ts == <<SLASH, "src", SLASH, "T", DOT, "ts">>
F_T_tsx == <<SLASH, "src", SLASH, "T", DOT, "tsx">>
F_T_index == <<SLASH, "src", SLASH, "T", SLASH, "index", DOT, "ts">>
F_index == <<SLASH, "src", SLASH, "index", DOT, "ts">>
F_cmp_T == <<SLASH, "src", SLASH, "cmp", SLASH, "T", DOT, "ts">>
F_cmp_index == <<SLASH, "src", SLASH, "cmp", SLASH, "index", DOT, "tsx">>
F_base_T == <<SLASH, "base", SLASH, "cmp", SLASH, "T", DOT, "ts">>
F_A == <<SLASH, "src", SLASH, "A", DOT, "ts">>
F_cmp_A == <<SLASH, "src", SLASH, "cmp", SLASH, "A", DOT, "ts">>

\* the files a disk of the resolver runs may hold
FsUniverse == {F_T_ts, F_T_tsx, F_T_index, F_index, F_cmp_T, F_cmp_index, F_base_T}

\* the importing files of the resolver runs
FromFiles == {F_A, F_cmp_A}

SpecAlphabet == {DOT, SLASH, BSLASH, "T"}

LongSpecs ==
    { <<DOT, SLASH, "T">>,
      <<DOT, BSLASH, "T">>,
      <<"T", SLASH, "T">>,
      <<"T", BSLASH, "T">>,
      <<SLASH, "T", SLASH>>,
      <<DOT, SLASH, "cmp", SLASH, "T">>,
      <<DOT, DOT, SLASH, "T">>,
      <<DOT, DOT, SLASH, "cmp", SLASH, "T">>,
      <<DOT, SLASH, "T", DOT, "ts">>,
      <<DOT, SLASH, "T", DOT, "tsx">>,
      <<DOT, SLASH, "T", SLASH>>,
      <<DOT, SLASH, DOT, SLASH, "T">>,
      <<DOT, BSLASH, "cmp", BSLASH, "T">>,
      <<DOT, DOT, SLASH, "index">>,
      <<"cmp", SLASH, "T">>,
      <<"cmp", SLASH, "T", DOT, "ts">>,
      <<"cmp", BSLASH, "T">>,
      <<"node_modules", SLASH, "cmp", SLASH, "T">>,
      <<"react">>,
      <<"T", DOT, "ts">>,
      <<SLASH, "src", SLASH, "T">>,
      <<SLASH, "src", SLASH, "T", DOT, "tsx">>,
      <<SLASH, "src", SLASH, "cmp">>,
      <<SLASH, "base", SLASH, "cmp", SLASH, "T">> }

Specifiers == StrsUpTo(SpecAlphabet, MaxSpecLen) \cup LongSpecs

\* the private resolution steps only ever receive normalized specifiers
NormalizedSpecifiers == {normalizePath(x) : x \in Specifiers}

ExtensionConfigs == {DefaultExtensions, << <<DOT, "tsx">>, <<DOT, "ts">> >>}

BaseUrlConfigs == {NoBaseUrl, P_base}

PathAlphabet == {DOT, SLASH, BSLASH, "T", "t", "ts", "TS"}

LongPaths == {F_T_ts, F_T_tsx, <<SLASH, "src", SLASH, "T">>, <<DOT, SLASH, "T", DOT, "ts">>,
              <<"T", DOT, "vue">>, <<"T", DOT, "cjs">>}

PathInputs == StrsUpTo(PathAlphabet, MaxPathLen) \cup LongPaths

----------------------------------------------------------------------------
(* Resolver runs: a resolver is constructed over a disk, then called *)

NoCall == [op |-> "none"]

\* the options the constructor of ImportAnalyzer sets when none is given
DefaultOptions ==
    [detectStatic |-> TRUE, detectDynamic |-> TRUE, detectLazy |-> TRUE, detectRequire |-> TRUE,
     modulePath |-> NULL]

InitResolver ==
    /\ fsFiles \in {d \in SUBSET FsUniverse : Cardinality(d) <= MaxFsFiles}
    /\ extensions \in ExtensionConfigs
    /\ baseUrl \in BaseUrlConfigs
    /\ platform = "linux"
    /\ corpus = <<>>
    /\ options = DefaultOptions
    /\ find = FindIdle
    /\ scan = ScanIdle
    /\ call = NoCall
    /\ ret = NULL

EnvUnchanged == UNCHANGED <<fsFiles, extensions, baseUrl, platform, corpus, options, find, scan>>

ResolveImportCall ==
    \E S \in Specifiers, F \in FromFiles :
        /\ call = NoCall
        /\ call' = [op |-> "resolveImport", specifier |-> S, fromFile |-> F]
        /\ ret' = resolveImport(S, F)
        /\ EnvUnchanged

ResolveRelativeCall ==
    \E S \in NormalizedSpecifiers, F \in FromFiles :
        /\ call = NoCall
        /\ call' = [op |-> "resolveRelative", specifier |-> S, fromFile |-> F,
                     probed |-> pathResolve(<<dirname(F), S>>)]
        /\ ret' = resolveRelative(S, F)
        /\ EnvUnchanged

ResolveAbsoluteCall ==
    \E S \in {x \in NormalizedSpecifiers : isAbsolute(x)} :
        /\ call = NoCall
        /\ call' = [op |-> "resolveAbsolute", specifier |-> S, probed |-> S]
        /\ ret' = resolveAbsolute(S)
        /\ EnvUnchanged

ResolveWithBaseUrlCall ==
    \E S \in NormalizedSpecifiers :
        /\ baseUrl # NoBaseUrl
        /\ call = NoCall
        /\ call' = [op |-> "resolveWithBaseUrl", specifier |-> S,
                     probed |-> pathResolve(<<baseUrl, S>>)]
        /\ ret' = resolveWithBaseUrl(S)
        /\ EnvUnchanged

\* a caller of resolveImport: filterImportsByModule on the one import { T } from S of file F
FilterImportsByModuleCall ==
    \E S \in Specifiers, F \in FromFiles, name \in {NULL, <<"T">>}, target \in {NULL, F_T_ts} :
        /\ call = NoCall
        /\ call' = [op |-> "filterImportsByModule", specifier |-> S, fromFile |-> F,
                     moduleName |-> name, targetPath |-> target]
        /\ ret' = filterImportsByModule(<< ImportRecord(S, "static", 1, << <<"T">> >>, "named") >>,
                                        name, F, target)
        /\ EnvUnchanged

NextResolver ==
    \/ ResolveImportCall
    \/ ResolveRelativeCall
    \/ ResolveAbsoluteCall
    \/ ResolveWithBaseUrlCall
    \/ FilterImportsByModuleCall

SpecResolver == InitResolver /\ [][NextResolver]_vars

----------------------------------------------------------------------------
(* pathsMatch runs *)

InitPaths ==
    /\ fsFiles = {}
    /\ extensions \in ExtensionConfigs
    /\ baseUrl = NoBaseUrl
    /\ platform \in {"linux", "win32"}
    /\ corpus = <<>>
    /\ options = DefaultOptions
    /\ find = FindIdle
    /\ scan = ScanIdle
    /\ call = NoCall
    /\ ret = NULL

PathsMatchCall ==
    \E a \in PathInputs, b \in PathInputs :
        /\ call = NoCall
        /\ call' = [op |-> "pathsMatch", path1 |-> a, path2 |-> b]
        /\ ret' = pathsMatch(a, b)
        /\ EnvUnchanged

\* pathsMatch(p, p + ext) for a configured extension
PathsMatchExtCall ==
    \E p \in PathInputs, i \in 1..Len(extensions) :
        /\ call = NoCall
        /\ call' = [op |-> "pathsMatch", path1 |-> p, path2 |-> p \o extensions[i]]
        /\ ret' = pathsMatch(p, p \o extensions[i])
        /\ EnvUnchanged

NextPaths ==
    \/ PathsMatchCall
    \/ PathsMatchExtCall

SpecPaths == InitPaths /\ [][NextPaths]_vars

----------------------------------------------------------------------------
(* Barrel runs: isBarrelForModule on one candidate file beside or above the target *)

\* most statements of a candidate barrel file
MaxBarrelStmts == 2

G_T == F_cmp_T
G_B == <<SLASH, "src", SLASH, "B", DOT, "ts">>
G_I == <<SLASH, "src", SLASH, "cmp", SLASH, "index", DOT, "ts">>

N_X == <<"X">>
N_Y == <<"Y">>

\* the specifiers that denote the target from the candidate file
SpecsToTarget(file) ==
    IF file = G_B
    THEN { <<DOT, SLASH, "cmp", SLASH, "T">> }
    ELSE { <<DOT, SLASH, "T">>, <<DOT, DOT, SLASH, "cmp", SLASH, "T">> }

\* the statements a candidate barrel file is made of
BarrelStmts(spec) ==
    { ImportDeclaration(<<>>, spec),
      ImportDeclaration(<<ImportSpecifier(N_X, N_X)>>, spec),
      ImportDeclaration(<<ImportSpecifier(N_X, N_Y)>>, spec),
      ImportDeclaration(<<ImportDefaultSpecifier(N_X)>>, spec),
      ImportDeclaration(<<ImportNamespaceSpecifier(N_X)>>, spec),
      ExportNamedDeclaration(<<ExportSpecifier(N_X, N_X)>>, spec),
      ExportNamedDeclaration(<<ExportSpecifier(N_X, N_X)>>, NULL),
      ExportNamedDeclaration(<<ExportSpecifier(N_Y, N_Y)>>, NULL),
      ExportDefaultDeclaration("Identifier", N_X),
      ExportDefaultDeclaration("FunctionDeclaration", <<"App">>),
      ExportDeclared("VariableDeclaration", <<"K">>),
      ExportAllDeclaration(spec) }

TargetSource == Parsed(<< ExportDeclared("VariableDeclaration", N_X) >>)

InitBarrel ==
    /\ \E file \in {G_B, G_I} :
         \E spec \in SpecsToTarget(file) :
         \E body \in StrsUpTo(BarrelStmts(spec), MaxBarrelStmts) :
            /\ ParserAccepts(body)
            /\ corpus = (file :> Parsed(body)) @@ (G_T :> TargetSource)
            /\ fsFiles = {file, G_T}
    /\ extensions = DefaultExtensions
    /\ baseUrl \in {NoBaseUrl, P_src}
    /\ platform = "linux"
    /\ options = [DefaultOptions EXCEPT !.modulePath = G_T]
    /\ find = FindIdle
    /\ scan = ScanIdle
    /\ call = NoCall
    /\ ret = NULL

IsBarrelForModuleCall ==
    \E file \in DOMAIN corpus \ {G_T} :
        /\ call = NoCall
        /\ call' = [op |-> "isBarrelForModule", barrelFilePath |-> file, targetModulePath |-> G_T]
        /\ ret' = isBarrelForModule(file, G_T)
        /\ EnvUnchanged

NextBarrel == IsBarrelForModuleCall

SpecBarrel == InitBarrel /\ [][NextBarrel]_vars

----------------------------------------------------------------------------
(* Search runs: findFilesImporting over a corpus *)

\* most files of the corpus of a search run
MaxCorpusFiles == 3

G_A == <<SLASH, "src", SLASH, "A", DOT, "tsx">>
G_H == <<SLASH, "src", SLASH, "pages", SLASH, "H", DOT, "tsx">>
G_S == <<SLASH, "src", SLASH, "cmp", SLASH, "S", DOT, "ts">>
G_Z == <<SLASH, "src", SLASH, "Z", DOT, "ts">>

N_T == <<"T">>

S_cmp_T == <<DOT, SLASH, "cmp", SLASH, "T">>
S_up_cmp_T == <<DOT, DOT, SLASH, "cmp", SLASH, "T">>
S_sib_T == <<DOT, SLASH, "T">>

File(path, src) == [path |-> path, src |-> src]

\* the files a corpus is drawn from: a path with one of its possible contents
CorpusUniverse ==
    { File(G_T, Parsed(<< ExportDeclared("VariableDeclaration", N_T) >>)),
      File(G_A, Parsed(<< ImportDeclaration(<<ImportSpecifier(N_T, N_T)>>, S_cmp_T) >>)),
      File(G_A, Parsed(<< ImportDeclaration(<<ImportDefaultSpecifier(N_X)>>, S_cmp_T) >>)),
      File(G_A, Parsed(<< ImportExpression(S_cmp_T) >>)),
      File(G_A, Parsed(<< RequireCall(S_cmp_T) >>)),
      File(G_A, Parsed(<< MemberLazyCall("React", "lazy", S_cmp_T) >>)),
      File(G_A, Parsed(<< ImportDeclaration(<<ImportSpecifier(N_T, N_T)>>, <<DOT, SLASH, "cmp">>) >>)),
      File(G_A, Parsed(<< ImportDeclaration(<<ImportSpecifier(N_T, N_T)>>, <<DOT, SLASH, "gone", SLASH, "Q">>) >>)),
      File(G_A, Parsed(<< ImportDeclaration(<<ImportDefaultSpecifier(N_X)>>, <<"react">>) >>)),
      File(G_H, Parsed(<< ImportDeclaration(<<ImportDefaultSpecifier(N_T)>>, S_up_cmp_T) >>)),
      File(G_H, Parsed(<< ImportDeclaration(<<ImportNamespaceSpecifier(N_X)>>, S_up_cmp_T) >>)),
      File(G_S, Parsed(<< ImportDeclaration(<<ImportSpecifier(N_T, N_T)>>, S_sib_T) >>)),
      File(G_I, Parsed(<< ImportDeclaration(<<ImportSpecifier(N_T, N_T)>>, S_up_cmp_T),
                          ExportNamedDeclaration(<<ExportSpecifier(N_T, N_T)>>, NULL) >>)),
      File(G_I, Parsed(<< ExportNamedDeclaration(<<ExportSpecifier(N_T, N_T)>>, S_sib_T) >>)),
      File(G_Z, SyntaxError) }

\* a corpus: the target and other files of the universe, at most MaxCorpusFiles
\* in all, no path twice
Corpora ==
    {C \in SUBSET CorpusUniverse :
        /\ Cardinality(C) <= MaxCorpusFiles
        /\ \E c \in C : c.path = G_T
        /\ \A c \in C : c.src.ok => ParserAccepts(c.src.body)
        /\ \A c1, c2 \in C : c1.path = c2.path => c1 = c2}

CorpusOf(C) == [f \in {c.path : c \in C} |-> (CHOOSE c \in C : c.path = f).src]

ModulePathConfigs == {NULL, G_T, <<"cmp", SLASH, "T">>, <<"gone">>}

DetectConfigs ==
    { DefaultOptions,
      [DefaultOptions EXCEPT !.detectStatic = FALSE] }

InitFind ==
    /\ \E C \in Corpora :
         /\ corpus = CorpusOf(C)
         /\ fsFiles = {c.path : c \in C}
    /\ extensions = DefaultExtensions
    /\ baseUrl \in {NoBaseUrl, P_src}
    /\ platform = "linux"
    /\ \E d \in DetectConfigs, m \in ModulePathConfigs : options = [d EXCEPT !.modulePath = m]
    /\ find = FindIdle
    /\ scan = ScanIdle
    /\ call = NoCall
    /\ ret = NULL

FindCall ==
    \E name \in {NULL, N_T}, root \in {P_src, <<SLASH, "gone">>}, cb \in BOOLEAN :
        FindFilesImportingCall(name, root, cb)

NextFind ==
    \/ FindCall
    \/ FindRejects
    \/ FindProcessesBatch
    \/ FindReturns

SpecFind == InitFind /\ [][NextFind]_vars

----------------------------------------------------------------------------
(* Twin runs: findFilesImporting over a corpus with two files of one name *)

\* most importing files of the corpus of a twin run
MaxTwinImporters == 2

\* the second file named T.ts, in another directory
G_U == <<SLASH, "src", SLASH, "pages", SLASH, "cmp", SLASH, "T", DOT, "ts">>
G_P == <<SLASH, "src", SLASH, "pages", SLASH, "B", DOT, "ts">>

S_pages_cmp_T == <<DOT, SLASH, "pages", SLASH, "cmp", SLASH, "T">>

\* the importers a twin corpus is drawn from
TwinUniverse ==
    { File(G_A, Parsed(<< ImportDeclaration(<<ImportSpecifier(N_T, N_T)>>, S_cmp_T) >>)),
      File(G_A, Parsed(<< ImportDeclaration(<<ImportSpecifier(N_T, N_T)>>, S_pages_cmp_T) >>)),
      File(G_A, Parsed(<< ImportDeclaration(<<ImportSpecifier(N_T, N_T)>>, S_cmp_T),
                          ImportDeclaration(<<ImportSpecifier(N_T, N_X)>>, S_pages_cmp_T) >>)),
      File(G_H, Parsed(<< ImportDeclaration(<<ImportDefaultSpecifier(N_T)>>, S_cmp_T) >>)),
      File(G_H, Parsed(<< ImportDeclaration(<<ImportDefaultSpecifier(N_T)>>, S_up_cmp_T) >>)),
      File(G_H, Parsed(<< ImportExpression(S_cmp_T) >>)),
      File(G_P, Parsed(<< ImportDeclaration(<<ImportSpecifier(N_T, N_T)>>, S_cmp_T),
                          ExportNamedDeclaration(<<ExportSpecifier(N_T, N_T)>>, NULL) >>)),
      File(G_I, Parsed(<< ImportDeclaration(<<ImportSpecifier(N_T, N_T)>>, S_up_cmp_T),
                          ExportNamedDeclaration(<<ExportSpecifier(N_T, N_T)>>, NULL) >>)) }

\* the two files named T.ts
Twins ==
    { File(G_T, Parsed(<< ExportDeclared("VariableDeclaration", N_T) >>)),
      File(G_U, Parsed(<< ExportDeclared("VariableDeclaration", N_T) >>)) }

TwinCorpora ==
    {Twins \cup C : C \in {D \in SUBSET TwinUniverse :
                              /\ Cardinality(D) <= MaxTwinImporters
                              /\ \A c1, c2 \in D : c1.path = c2.path => c1 = c2}}

InitTwin ==
    /\ \E C \in TwinCorpora :
         /\ corpus = CorpusOf(C)
         /\ fsFiles = {c.path : c \in C}
    /\ extensions = DefaultExtensions
    /\ baseUrl \in {NoBaseUrl, P_src}
    /\ platform = "linux"
    /\ \E m \in {G_T, G_U} : options = [DefaultOptions EXCEPT !.modulePath = m]
    /\ find = FindIdle
    /\ scan = ScanIdle
    /\ call = NoCall
    /\ ret = NULL

SpecTwin == InitTwin /\ [][NextFind]_vars

----------------------------------------------------------------------------
(* Project runs: analyzeProject, findUnusedFiles, buildImportMap and findFilesImporting *)
(* over a project with an index file                                                    *)

\* most files of the corpus of a project run
MaxProjectFiles == 3

S_up_cmp == <<DOT, DOT, SLASH, "cmp">>
S_gone_Q == <<DOT, SLASH, "gone", SLASH, "Q">>

\* the files a project is drawn from: a path with one of its possible contents
ProjectUniverse ==
    { File(G_T, Parsed(<< ExportDeclared("VariableDeclaration", N_T) >>)),
      File(G_I, Parsed(<< ExportNamedDeclaration(<<ExportSpecifier(N_T, N_T)>>, S_sib_T) >>)),
      File(G_I, Parsed(<< ImportDeclaration(<<ImportSpecifier(N_T, N_T)>>, S_up_cmp_T),
                          ExportNamedDeclaration(<<ExportSpecifier(N_T, N_T)>>, NULL) >>)),
      File(G_I, Parsed(<< ExportAllDeclaration(S_sib_T) >>)),
      File(G_H, Parsed(<< ImportDeclaration(<<ImportSpecifier(N_T, N_T)>>, S_up_cmp) >>)),
      File(G_H, Parsed(<< ImportDeclaration(<<ImportSpecifier(N_T, N_T)>>, S_up_cmp_T) >>)),
      File(G_H, Parsed(<< ImportExpression(S_up_cmp_T) >>)),
      File(G_A, Parsed(<< ImportDeclaration(<<ImportSpecifier(N_T, N_T)>>, S_cmp_T),
                          RequireCall(S_cmp_T) >>)),
      File(G_A, Parsed(<< ImportDeclaration(<<ImportSpecifier(N_T, N_T)>>, S_cmp_T),
                          ImportDeclaration(<<ImportSpecifier(N_T, N_X)>>, S_cmp_T) >>)),
      File(G_A, Parsed(<< ImportExpression(NonLiteral) >>)),
      File(G_A, Parsed(<< ImportDeclaration(<<ImportSpecifier(N_T, N_T)>>, S_gone_Q) >>)),
      File(G_A, Parsed(<< ImportDeclaration(<<ImportDefaultSpecifier(N_X)>>, <<"react">>) >>)),
      File(G_Z, SyntaxError) }

Projects ==
    {C \in SUBSET ProjectUniverse :
        /\ Cardinality(C) <= MaxProjectFiles
        /\ \A c \in C : c.src.ok => ParserAccepts(c.src.body)
        /\ \A c1, c2 \in C : c1.path = c2.path => c1 = c2}

ProjectOptions ==
    { DefaultOptions,
      [DefaultOptions EXCEPT !.detectStatic = FALSE],
      [DefaultOptions EXCEPT !.modulePath = G_T] }

SearchRoots == {P_src, <<SLASH, "gone">>}

FilePatterns == {NULL, <<SLASH, "cmp", SLASH>>}

InitProject ==
    /\ \E C \in Projects :
         /\ corpus = CorpusOf(C)
         /\ fsFiles = {c.path : c \in C}
    /\ extensions = DefaultExtensions
    /\ baseUrl \in {NoBaseUrl, P_src}
    /\ platform = "linux"
    /\ options \in ProjectOptions
    /\ find = FindIdle
    /\ scan = ScanIdle
    /\ call = NoCall
    /\ ret = NULL

AnalyzeProjectCall ==
    \E root \in SearchRoots, cb \in BOOLEAN : ScanCall("analyzeProject", root, NULL, cb)

FindUnusedFilesCall ==
    \E root \in SearchRoots, pattern \in FilePatterns :
        ScanCall("findUnusedFiles", root, pattern, FALSE)

BuildImportMapCall ==
    \E root \in SearchRoots : ScanCall("buildImportMap", root, NULL, FALSE)

ProjectFindCall ==
    \E name \in {NULL, N_T}, root \in SearchRoots :
        /\ scan.pc = "idle"
        /\ FindFilesImportingCall(name, root, FALSE)

NextProject ==
    \/ AnalyzeProjectCall
    \/ FindUnusedFilesCall
    \/ BuildImportMapCall
    \/ ProjectFindCall
    \/ ScanRejects
    \/ ScanProcessesBatch
    \/ AnalyzeProjectReturns
    \/ FindUnusedFilesReturns
    \/ BuildImportMapReturns
    \/ FindRejects
    \/ FindProcessesBatch
    \/ FindReturns

SpecProject == InitProject /\ [][NextProject]_vars

----------------------------------------------------------------------------
(* Lazy runs: findFilesImporting over files that load the target through a wrapper call *)

\* most files with a wrapper call in the corpus of a lazy run
MaxLazyFiles == 2

\* the wrapper calls that load the module at spec
LazyCalls(spec) ==
    { MemberLazyCall("React", "lazy", spec),
      MemberLazyCall("SomeAlias", "lazy", spec),
      WrapperLazyCall("dynamic", spec) }

\* a file with one statement: the call, alone or bound to a local name
LazyUniverse ==
    UNION { { File(G_S, Parsed(<< c >>)), File(G_S, Parsed(<< VariableDeclaration(N_X, c) >>)),
              File(G_S, Parsed(<< VariableDeclaration(N_Y, c) >>)) } : c \in LazyCalls(S_sib_T) }
    \cup
    UNION { { File(G_A, Parsed(<< VariableDeclaration(N_X, c) >>)) } : c \in LazyCalls(S_cmp_T) }
    \cup
    { File(G_H, Parsed(<< ImportDeclaration(<<ImportDefaultSpecifier(N_X)>>, <<"react">>) >>)) }

LazyCorpora ==
    { {File(G_T, Parsed(<< ExportDeclared("VariableDeclaration", N_T) >>))} \cup C :
        C \in {D \in SUBSET LazyUniverse :
                  /\ Cardinality(D) <= MaxLazyFiles
                  /\ \A c1, c2 \in D : c1.path = c2.path => c1 = c2} }

LazyOptions ==
    { DefaultOptions,
      [DefaultOptions EXCEPT !.detectLazy = FALSE],
      [DefaultOptions EXCEPT !.detectDynamic = FALSE] }

InitLazy ==
    /\ \E C \in LazyCorpora :
         /\ corpus = CorpusOf(C)
         /\ fsFiles = {c.path : c \in C}
    /\ extensions = DefaultExtensions
    /\ baseUrl \in {NoBaseUrl, P_src}
    /\ platform = "linux"
    /\ options \in LazyOptions
    /\ find = FindIdle
    /\ scan = ScanIdle
    /\ call = NoCall
    /\ ret = NULL

SpecLazy == InitLazy /\ [][NextFind]_vars

----------------------------------------------------------------------------
(* Trace runs: findFilesImporting over a corpus with barrels and their consumers *)

\* most files of the corpus of a trace run besides the target
MaxTraceFiles == 4

G_C == <<SLASH, "src", SLASH, "C", DOT, "ts">>
G_PA == <<SLASH, "src", SLASH, "pages", SLASH, "A", DOT, "tsx">>
G_PZ == <<SLASH, "src", SLASH, "pages", SLASH, "Z", DOT, "tsx">>

S_up_B == <<DOT, DOT, SLASH, "B">>
S_up_C == <<DOT, DOT, SLASH, "C">>

\* import { T } from '<spec>'
ImportT(spec) == ImportDeclaration(<<ImportSpecifier(N_T, N_T)>>, spec)

\* export { T }
ExportT == ExportNamedDeclaration(<<ExportSpecifier(N_T, N_T)>>, NULL)

\* the files a trace corpus is drawn from: barrels of the target, their consumers, direct
\* importers (one with two imports on one line) and a file that does not parse
TraceUniverse ==
    { File(G_B, Parsed(<< ImportT(S_cmp_T), ExportT >>)),
      File(G_C, Parsed(<< ImportT(S_cmp_T), ExportT >>)),
      File(G_I, Parsed(<< ImportT(S_up_cmp_T), ExportT >>)),
      File(G_H, Parsed(<< ImportT(S_up_B) >>)),
      File(G_H, Parsed(<< ImportT(S_up_B), ImportExpression(S_up_B) >>)),
      File(G_H, Parsed(<< ImportT(S_up_cmp) >>)),
      File(G_H, Parsed(<< ImportT(S_up_cmp_T),
                          OnLine(ImportDeclaration(<<ImportSpecifier(N_T, N_X)>>, S_up_cmp_T), 1) >>)),
      File(G_H, Parsed(<< ImportT(S_up_cmp_T),
                          ImportDeclaration(<<ImportSpecifier(N_T, N_X)>>, S_up_B) >>)),
      File(G_H, Parsed(<< ImportT(S_up_C) >>)),
      File(G_PA, Parsed(<< ImportT(S_up_C) >>)),
      File(G_PA, Parsed(<< ImportT(S_up_B) >>)),
      File(G_PZ, Parsed(<< ImportT(S_up_B) >>)),
      File(G_Z, SyntaxError) }

TraceCorpora ==
    { {File(G_T, Parsed(<< ExportDeclared("VariableDeclaration", N_T) >>))} \cup C :
        C \in {D \in SUBSET TraceUniverse :
                  /\ Cardinality(D) <= MaxTraceFiles
                  /\ \A c1, c2 \in D : c1.path = c2.path => c1 = c2} }

TraceOptions ==
    { DefaultOptions,
      [DefaultOptions EXCEPT !.modulePath = G_T],
      [DefaultOptions EXCEPT !.modulePath = G_T, !.detectStatic = FALSE],
      [DefaultOptions EXCEPT !.modulePath = G_T, !.detectDynamic = FALSE] }

InitTrace ==
    /\ \E C \in TraceCorpora :
         /\ corpus = CorpusOf(C)
         /\ fsFiles = {c.path : c \in C}
    /\ extensions = DefaultExtensions
    /\ baseUrl \in {NoBaseUrl, P_src}
    /\ platform = "linux"
    /\ options \in TraceOptions
    /\ find = FindIdle
    /\ scan = ScanIdle
    /\ call = NoCall
    /\ ret = NULL

SpecTrace == InitTrace /\ [][NextFind]_vars

----------------------------------------------------------------------------
(* Chain runs: findFilesImporting and findBarrelConsumers over barrels of barrels, *)
(* circular barrels and the kinds of import a consumer of a barrel may use          *)

\* most files of the corpus of a chain run besides the target
MaxChainFiles == 4

S_up_src_B == <<DOT, DOT, SLASH, "src", SLASH, "B">>
S_up_src_C == <<DOT, DOT, SLASH, "src", SLASH, "C">>
S_up_cmp_S == <<DOT, DOT, SLASH, "cmp", SLASH, "S">>

\* export { T, X }
ExportTX == ExportNamedDeclaration(<<ExportSpecifier(N_T, N_T), ExportSpecifier(N_X, N_X)>>, NULL)

\* import { T as X } from '<spec>'
ImportTAsX(spec) == ImportDeclaration(<<ImportSpecifier(N_T, N_X)>>, spec)

\* the first barrel of a chain: it imports the target and re-exports T
ChainB1 == Parsed(<< ImportT(S_cmp_T), ExportT >>)

\* the second barrel of a chain: it imports T from the first barrel and re-exports it
ChainB2 == Parsed(<< ImportT(S_up_B), ExportT >>)

\* the consumer at the end of a chain: it imports T from the second barrel
ChainConsumer == Parsed(<< ImportT(S_up_cmp_S) >>)

\* two barrels of the target that import from each other
CircularB == Parsed(<< ImportT(S_cmp_T), ImportTAsX(S_up_src_C), ExportTX >>)
CircularC == Parsed(<< ImportT(S_cmp_T), ImportTAsX(S_up_src_B), ExportTX >>)

\* the files a chain corpus is drawn from
ChainUniverse ==
    { File(G_B, ChainB1),
      File(G_B, CircularB),
      File(G_B, Parsed(<< ImportT(S_cmp_T),
                          ImportDeclaration(<<ImportSpecifier(N_X, N_X)>>, S_cmp_T),
                          ExportNamedDeclaration(<<ExportSpecifier(N_X, N_X)>>, NULL) >>)),
      File(G_B, Parsed(<< ImportDeclaration(<<ImportDefaultSpecifier(N_T)>>, S_cmp_T),
                          ExportDefaultDeclaration("Identifier", N_T) >>)),
      File(G_C, CircularC),
      File(G_S, ChainB2),
      File(G_H, ChainConsumer),
      File(G_H, Parsed(<< ImportT(S_up_B) >>)),
      File(G_H, Parsed(<< ImportDeclaration(<<>>, S_up_B) >>)),
      File(G_H, Parsed(<< ImportDeclaration(<<ImportNamespaceSpecifier(N_X)>>, S_up_B) >>)),
      File(G_H, Parsed(<< ImportDeclaration(<<ImportDefaultSpecifier(N_X)>>, S_up_B) >>)),
      File(G_H, Parsed(<< ImportDeclaration(<<ImportSpecifier(N_X, N_X)>>, S_up_B) >>)),
      File(G_H, Parsed(<< ImportExpression(S_up_B) >>)),
      File(G_H, Parsed(<< RequireCall(S_up_B) >>)) }

ChainTarget ==
    Parsed(<< ExportDeclared("VariableDeclaration", N_T),
              ExportDeclared("VariableDeclaration", N_X) >>)

ChainCorpora ==
    { {File(G_T, ChainTarget)} \cup C :
        C \in {D \in SUBSET ChainUniverse :
                  /\ Cardinality(D) <= MaxChainFiles
                  /\ \A c \in D : ParserAccepts(c.src.body)
                  /\ \A c1, c2 \in D : c1.path = c2.path => c1 = c2} }

InitChain ==
    /\ \E C \in ChainCorpora :
         /\ corpus = CorpusOf(C)
         /\ fsFiles = {c.path : c \in C}
    /\ extensions = DefaultExtensions
    /\ baseUrl \in {NoBaseUrl, P_src}
    /\ platform = "linux"
    /\ options = [DefaultOptions EXCEPT !.modulePath = G_T]
    /\ find = FindIdle
    /\ scan = ScanIdle
    /\ call = NoCall
    /\ ret = NULL

\* most barrels of the visited set findBarrelConsumers is called with
MaxVisited == 1

\* the import cache the direct pass of a search below /src builds
ChainCache ==
    ProcessBatch([results |-> <<>>, fileImportsMap |-> <<>>, failedFiles |-> <<>>],
                 findFiles(P_src), NULL, G_T).fileImportsMap

\* findBarrelConsumers called for a file of the corpus with the names isBarrelForModule
\* gives for it, the cache of the corpus and a visited set
ConsumersCallOf(barrel, visited) ==
    With(isBarrelForModule(barrel, G_T).exportedNames, LAMBDA exportedNames :
    With(ChainCache, LAMBDA fileImportsMap :
        [call |-> [op |-> "findBarrelConsumers", barrelFilePath |-> barrel,
                   targetModulePath |-> G_T,
                   exportedNames |-> exportedNames, fileImportsMap |-> fileImportsMap,
                   visited |-> visited],
         ret |-> findBarrelConsumers(barrel, exportedNames, fileImportsMap, visited)]))

FindBarrelConsumersCall ==
    /\ call = NoCall
    /\ \E barrel \in DOMAIN corpus \ {G_T} :
       \E visited \in {V \in SUBSET (DOMAIN corpus \ {G_T}) : Cardinality(V) <= MaxVisited} :
       \E done \in {ConsumersCallOf(barrel, visited)} :
        /\ call' = done.call
        /\ ret' = done.ret
        /\ EnvUnchanged

\* the barrel pass of a chain run is taken entry by entry
NextChain ==
    \/ FindCall
    \/ FindRejects
    \/ FindProcessesBatch
    \/ FindEntersBarrelPass
    \/ FindVisitsEntry
    \/ FindLeavesBarrelPass
    \/ FindBarrelConsumersCall

SpecChain == InitChain /\ [][NextChain]_vars

----------------------------------------------------------------------------
(* Batch runs: findFilesImporting and analyzeProject over corpora of more than one batch *)

\* most source files of the corpus of a batch run
MaxBatchFiles == 41

\* the paths the source files of a batch run are drawn from, in the order of the paths
BatchPaths ==
    SortedSeq({ dir \o <<SLASH, name, DOT, ext>> :
                  dir \in {P_src, P_src \o <<SLASH, "cmp">>, P_src \o <<SLASH, "pages">>},
                  name \in {"A", "B", "C", "H", "S", "T", "Z"},
                  ext \in {"js", "ts", "tsx"} })

\* a file of the search root that is no source file
G_css == <<SLASH, "src", SLASH, "T", DOT, "css">>

\* the text of the k-th source file: every fifth file does not parse, every other file
\* of the rest imports T from ./cmp/T
BatchSource(k) ==
    IF k % 5 = 0 THEN SyntaxError
    ELSE IF k % 2 = 1 THEN Parsed(<< ImportT(S_cmp_T) >>)
    ELSE Parsed(<<>>)

InitBatch ==
    /\ \E n \in 0..MaxBatchFiles :
         /\ corpus = [f \in {BatchPaths[k] : k \in 1..n} |->
                         BatchSource(CHOOSE k \in 1..n : BatchPaths[k] = f)]
         /\ fsFiles = {BatchPaths[k] : k \in 1..n} \cup {G_css}
    /\ extensions = DefaultExtensions
    /\ baseUrl = NoBaseUrl
    /\ platform = "linux"
    /\ options \in {DefaultOptions, [DefaultOptions EXCEPT !.modulePath = G_T]}
    /\ find = FindIdle
    /\ scan = ScanIdle
    /\ call = NoCall
    /\ ret = NULL

NextBatch ==
    \/ FindCall
    \/ FindRejects
    \/ FindProcessesBatch
    \/ FindReturns
    \/ AnalyzeProjectCall
    \/ ScanRejects
    \/ ScanProcessesBatch
    \/ AnalyzeProjectReturns

SpecBatch == InitBatch /\ [][NextBatch]_vars

----------------------------------------------------------------------------
(* Index runs: findFilesImporting with index files of several extensions beside the target *)

\* most index files in the directory of the target
MaxIndexFiles == 2

P_cmp == <<SLASH, "src", SLASH, "cmp">>

\* /src/cmp/index<ext>
IndexBeside(ext) == P_cmp \o <<SLASH, "index">> \o ext

S_up_cmp_index == <<DOT, DOT, SLASH, "cmp", SLASH, "index">>
S_up_cmp_index_tsx == <<DOT, DOT, SLASH, "cmp", SLASH, "index", DOT, "tsx">>

\* export { T } from './T'
IndexSource == Parsed(<< ExportNamedDeclaration(<<ExportSpecifier(N_T, N_T)>>, S_sib_T) >>)

\* the files that import the directory of the target, its index file or the target
IndexImporters ==
    { File(G_H, Parsed(<< ImportT(S_up_cmp) >>)),
      File(G_H, Parsed(<< ImportT(S_up_cmp_index) >>)),
      File(G_H, Parsed(<< ImportT(S_up_cmp_index_tsx) >>)),
      File(G_H, Parsed(<< ImportExpression(S_up_cmp) >>)),
      File(G_H, Parsed(<< ImportT(S_up_cmp_T) >>)),
      File(G_S, Parsed(<< ImportT(S_up_cmp_index) >>)) }

\* the sets of extensions the index files of a run have
IndexExtensionSets ==
    {E \in SUBSET {DefaultExtensions[k] : k \in 1..Len(DefaultExtensions)} :
        Cardinality(E) \in 1..MaxIndexFiles}

InitIndex ==
    /\ \E E \in IndexExtensionSets, C \in SUBSET IndexImporters :
         /\ \A c1, c2 \in C : c1.path = c2.path => c1 = c2
         /\ fsFiles = {G_T} \cup {IndexBeside(e) : e \in E} \cup {c.path : c \in C}
         /\ corpus = [f \in {g \in fsFiles : MatchesInclude(g)} |->
                         IF f = G_T THEN Parsed(<< ExportDeclared("VariableDeclaration", N_T) >>)
                         ELSE IF \E c \in C : c.path = f THEN (CHOOSE c \in C : c.path = f).src
                         ELSE IndexSource]
    /\ extensions = DefaultExtensions
    /\ baseUrl \in {NoBaseUrl, P_src}
    /\ platform = "linux"
    /\ \E d \in DetectConfigs : options = [d EXCEPT !.modulePath = G_T]
    /\ find = FindIdle
    /\ scan = ScanIdle
    /\ call = NoCall
    /\ ret = NULL

SpecIndex == InitIndex /\ [][NextFind]_vars

----------------------------------------------------------------------------
(* Properties of the resolver *)

\* the specifier begins with './' or '../'
IsRelativeSpecifier(S) == StartsWith(S, <<DOT, SLASH>>) \/ StartsWith(S, <<DOT, DOT, SLASH>>)

HasConfiguredExtension(p) == \E i \in 1..Len(extensions) : EndsWith(p, extensions[i])

\* the files dirname(F)/N.<ext> that exist, for the configured extensions
SiblingsOf(F, N) ==
    {g \in fsFiles : \E i \in 1..Len(extensions) : g = dirname(F) \o <<SLASH>> \o N \o extensions[i]}

\* C1: resolveImport of a relative specifier returns null or the path of an existing file
\* with a configured extension, and './N' returns the one existing sibling N.<ext>.
C1_RelativeResolvesToFile ==
    (call.op = "resolveImport" /\ IsRelativeSpecifier(call.specifier)) =>
        /\ ret = NULL \/ (ret \in fsFiles /\ HasConfiguredExtension(ret))
        /\ \A g \in fsFiles :
              (call.specifier = <<DOT, SLASH, "T">> /\ SiblingsOf(call.fromFile, <<"T">>) = {g})
                  => ret = g

\* C2: a specifier beginning with './' or '../' is resolved against the directory of the
\* importing file: never returned as a bare name, never resolved against the base directory.
C2_RelativeFirst ==
    (call.op = "resolveImport" /\ IsRelativeSpecifier(call.specifier)) =>
        ret = resolveRelative(call.specifier, call.fromFile)

\* C3 as claimed: a specifier with no '/' that does not start with '.' is returned unchanged.
C3_BareUnchanged_Claimed ==
    (call.op = "resolveImport" /\ ~Includes(call.specifier, SLASH)
                               /\ ~StartsWith(call.specifier, <<DOT>>)) =>
        ret = call.specifier

\* C3 amended: a specifier with neither '/' nor a backslash that does not start with '.'
\* is returned unchanged, whatever the disk holds and whatever base directory is configured.
C3_BareUnchanged ==
    (call.op = "resolveImport" /\ ~Includes(call.specifier, SLASH)
                               /\ ~Includes(call.specifier, BSLASH)
                               /\ ~StartsWith(call.specifier, <<DOT>>)) =>
        ret = call.specifier

\* the bare name T is returned although a file T.ts lies beside the importing file
\* and a base directory is configured
C3_Witness ==
    /\ call.op = "resolveImport"
    /\ call.specifier = <<"T">>
    /\ call.fromFile = F_A
    /\ F_T_ts \in fsFiles
    /\ baseUrl = P_base
    /\ ret = <<"T">>

\* the paths one probe of P tries, in order
ProbeCandidates(P) ==
    (IF \E i \in 1..Len(extensions) : extname(P) = extensions[i] THEN <<P>> ELSE <<>>)
    \o [i \in 1..Len(extensions) |-> P \o extensions[i]]
    \o [i \in 1..Len(extensions) |-> StripTrailingSlash(P) \o <<SLASH, "index">> \o extensions[i]]

\* p names a regular file of the disk
OnDisk(p) == Len(p) > 0 /\ p[Len(p)] # SLASH /\ FsCanon(p) \in fsFiles

FirstOnDisk(cands) ==
    LET hits == {i \in 1..Len(cands) : OnDisk(cands[i])}
    IN IF hits = {} THEN NULL ELSE cands[CHOOSE i \in hits : \A j \in hits : i <= j]

IsProbeCall == call.op \in {"resolveRelative", "resolveAbsolute", "resolveWithBaseUrl"}

IsBareSpecifier(S) ==
    ~Includes(normalizePath(S), SLASH) /\ ~StartsWith(normalizePath(S), <<DOT>>)

----------------------------------------------------------------------------
(* Properties of pathsMatch *)

\* C6 as claimed: pathsMatch(p, p + ext) for every path p and every configured extension,
\* and pathsMatch is reflexive and symmetric.
C6_PathsMatch_Claimed ==
    call.op = "pathsMatch" =>
        /\ (\E i \in 1..Len(extensions) : call.path2 = call.path1 \o extensions[i]) => ret = TRUE
        /\ call.path1 = call.path2 => ret = TRUE
        /\ ret = pathsMatch(call.path2, call.path1)

\* what pathsMatch compares of p: normalized, lower-cased on win32
Compared(p) == IF platform = "win32" THEN toLowerCase(normalizePath(p)) ELSE normalizePath(p)

EndsInRemovable(p) == \E i \in 1..Len(RemovableExtensions) : EndsWith(p, RemovableExtensions[i])

\* C6 amended: pathsMatch(p, p + ext) for every extension ext of .ts .tsx .js .jsx .mjs .cjs
\* and every p whose compared form does not itself end in one of these; pathsMatch is
\* reflexive and symmetric for all paths.
C6_PathsMatch ==
    call.op = "pathsMatch" =>
        /\ ( /\ \E i \in 1..Len(RemovableExtensions) : call.path2 = call.path1 \o RemovableExtensions[i]
             /\ ~EndsInRemovable(Compared(call.path1)) ) => ret = TRUE
        /\ call.path1 = call.path2 => ret = TRUE
        /\ ret = pathsMatch(call.path2, call.path1)

\* on win32, 'T' matches 'T.tsx'
C6_Witness ==
    /\ call.op = "pathsMatch"
    /\ platform = "win32"
    /\ call.path1 = <<"T">>
    /\ call.path2 = <<"T", DOT, "tsx">>
    /\ ret = TRUE

----------------------------------------------------------------------------
(* Properties of the barrel check *)

\* the statements of the file the barrel check was called on
BarrelBody == parseFile(call.barrelFilePath)

\* the specifier denotes the file target from the importing file: it is relative and the
\* probe of the path it names from the directory of the importing file finds target
Denotes(S, fromFile, target) ==
    /\ IsRelativeSpecifier(S)
    /\ FirstOnDisk(ProbeCandidates(pathResolve(<<dirname(fromFile), S>>))) = target

IsReExportFromTarget(node) ==
    /\ node.t = "ExportNamedDeclaration"
    /\ node.source # NULL
    /\ Denotes(node.source, call.barrelFilePath, call.targetModulePath)

IsImportOfTarget(node) ==
    /\ node.t = "ImportDeclaration"
    /\ Denotes(node.source, call.barrelFilePath, call.targetModulePath)

\* the names the re-export declarations of the file export
ReExportedNames ==
    UNION { {BarrelBody[k].specifiers[j].exported : j \in 1..Len(BarrelBody[k].specifiers)} :
            k \in {i \in 1..Len(BarrelBody) : IsReExportFromTarget(BarrelBody[i])} }

\* C7: a file whose only reference to the target is a re-export declaration
\* export { X } from '<target>' is reported as a barrel with re-exported names exactly {X}.
C7_ReExportIsBarrel ==
    ( /\ call.op = "isBarrelForModule"
      /\ \E k \in 1..Len(BarrelBody) : IsReExportFromTarget(BarrelBody[k])
      /\ \A k \in 1..Len(BarrelBody) :
            BarrelBody[k].t \notin {"ImportDeclaration", "ExportAllDeclaration"} )
    => /\ ret.isBarrel = TRUE
       /\ {ret.exportedNames[k] : k \in 1..Len(ret.exportedNames)} = ReExportedNames

\* the local names the imports of the target bind
BoundByTargetImports ==
    UNION { {BarrelBody[k].specifiers[j].local : j \in 1..Len(BarrelBody[k].specifiers)} :
            k \in {i \in 1..Len(BarrelBody) : IsImportOfTarget(BarrelBody[i])} }

\* C8: a file that imports the target and has no export record referring to a name bound
\* by that import is not a barrel, whatever the kind of the import and whatever else it exports.
C8_UnexportedImportIsNoBarrel ==
    ( /\ call.op = "isBarrelForModule"
      /\ \E k \in 1..Len(BarrelBody) : IsImportOfTarget(BarrelBody[k])
      /\ \A k \in 1..Len(extractExports(BarrelBody)) :
            extractExports(BarrelBody)[k].localName \notin BoundByTargetImports )
    => ret.isBarrel = FALSE

----------------------------------------------------------------------------
(* Properties of findFilesImporting *)

\* every import style is enabled
AllStylesEnabled ==
    options.detectStatic /\ options.detectDynamic /\ options.detectLazy /\ options.detectRequire

\* a search by name alone has returned
NameSearchDone ==
    /\ find.pc = "done"
    /\ ~Truthy(options.modulePath)
    /\ Truthy(find.moduleName)

\* the three ways an import matches the name N
NameMatches(imp, f, N) ==
    \/ imp.module = N
    \/ (imp.specifiers # NULL /\ SeqIncludes(imp.specifiers, N))
    \/ (resolveImport(imp.module, f) # NULL
            /\ StripScriptExtension(basename(resolveImport(imp.module, f))) = N)
    \/ StripScriptExtension(basename(imp.module)) = N

\* an import record as extracted, before the filter stores the resolved path in it
AsExtracted(imp) == [imp EXCEPT !.resolvedPath = NULL]

AsExtractedAll(imports) == [k \in 1..Len(imports) |-> AsExtracted(imports[k])]

\* the imports of f that match N, in record order
ImportsMatchingName(f, N) ==
    LET Matches(imp) == NameMatches(imp, f, N)
    IN SelectSeq(getAllImports(parseFile(f)), Matches)

\* the entry of the returned list for file f, <<>> when there is none
EntriesOf(f) == SelectSeq(ret, LAMBDA e : e.file = f)

\* C9 as claimed: with no module path and a name N, the result holds exactly the files with
\* an import that matches N, each entry listing exactly those imports.
C9_NameSearch_Claimed ==
    NameSearchDone =>
        \A f \in DOMAIN corpus :
            ParseSucceeds(f) =>
                IF ImportsMatchingName(f, find.moduleName) = <<>>
                THEN EntriesOf(f) = <<>>
                ELSE /\ Len(EntriesOf(f)) = 1
                     /\ AsExtractedAll(EntriesOf(f)[1].imports) = ImportsMatchingName(f, find.moduleName)

\* the imports of f of an enabled style whose specifier resolves and that match N,
\* each with its resolved path, in record order
ResolvedImportsMatchingName(f, N) ==
    LET Matches(imp) ==
            /\ TypeEnabled(imp.type)
            /\ Truthy(resolveImport(imp.module, f))
            /\ NameMatches(imp, f, N)
        kept == SelectSeq(getAllImports(parseFile(f)), Matches)
    IN [k \in 1..Len(kept) |-> [kept[k] EXCEPT !.resolvedPath = resolveImport(kept[k].module, f)]]

\* the result of a search by name: one entry per parsed file with such an import, in the
\* order of the discovered files
NameSearchResult(N) ==
    LET PerFile(f, k) ==
            IF ParseSucceeds(f) /\ ResolvedImportsMatchingName(f, N) # <<>>
            THEN << [file |-> f, imports |-> ResolvedImportsMatchingName(f, N)] >>
            ELSE <<>>
    IN FlatMap(find.files, PerFile)

\* C9 amended: with no module path and a name N, the result holds exactly the parsed files
\* with an import of an enabled style whose specifier resolves (to a non-empty value) and
\* whose specifier equals N, whose bound names contain N, or whose resolved or raw basename
\* without .js/.jsx/.ts/.tsx equals N; each entry lists exactly those imports.
C9_NameSearch ==
    NameSearchDone => ret = NameSearchResult(find.moduleName)

\* A.tsx imports { T } from './cmp/T' and H.tsx imports default T from '../cmp/T':
\* the search for T returns these two files, each with one import
C9_Witness ==
    /\ NameSearchDone
    /\ find.moduleName = N_T
    /\ DOMAIN corpus = {G_T, G_A, G_H}
    /\ corpus[G_A] = Parsed(<< ImportDeclaration(<<ImportSpecifier(N_T, N_T)>>, S_cmp_T) >>)
    /\ corpus[G_H] = Parsed(<< ImportDeclaration(<<ImportDefaultSpecifier(N_T)>>, S_up_cmp_T) >>)
    /\ Len(ret) = 2
    /\ ret[1].file = G_A /\ Len(ret[1].imports) = 1
    /\ ret[2].file = G_H /\ Len(ret[2].imports) = 1

\* a search by path alone, for a target that exists, has returned
PathSearchDone ==
    /\ find.pc = "done"
    /\ Truthy(options.modulePath)
    /\ find.targetPath \in fsFiles
    /\ ~Truthy(find.moduleName)

\* f has an import, of any style, whose specifier denotes the file target
ImportsFile(f, target) ==
    \E k \in 1..Len(getAllImports(parseFile(f))) :
        Denotes(getAllImports(parseFile(f))[k].module, f, target)

\* C10: with a module path at an existing file and no name, the result holds every file with
\* an import whose specifier denotes that file relative to the importing file, whatever
\* names it binds and whichever style it uses.
C10_PathSearchFindsImporters ==
    (PathSearchDone /\ AllStylesEnabled) =>
        \A f \in DOMAIN corpus :
            (ParseSucceeds(f) /\ ImportsFile(f, find.targetPath)) => EntriesOf(f) # <<>>

----------------------------------------------------------------------------
(* Properties of the search among files of one name *)

\* the other of the two files named T.ts
OtherTwin == IF find.targetPath = G_T THEN G_U ELSE G_T

\* the imports of f whose specifier names a module T
ImportsNamedT(f) ==
    SelectSeq(getAllImports(parseFile(f)), LAMBDA imp : basename(imp.module) = N_T)

\* f imports a module T, and each such import denotes the other twin
ImportsOnlyOther(f) ==
    /\ ParseSucceeds(f)
    /\ ImportsNamedT(f) # <<>>
    /\ \A k \in 1..Len(ImportsNamedT(f)) : Denotes(ImportsNamedT(f)[k].module, f, OtherTwin)

\* C11: with the module path at one of two files of the same name in different directories
\* and no name, the result holds no file whose only imports of that name denote the other.
C11_TwinImportersExcluded ==
    (PathSearchDone /\ find.targetPath \in {G_T, G_U}) =>
        \A k \in 1..Len(ret) : ~ImportsOnlyOther(ret[k].file)

----------------------------------------------------------------------------
(* Properties of findUnusedFiles *)

\* findUnusedFiles has returned
UnusedDone == scan.pc = "done" /\ scan.op = "findUnusedFiles"

\* the paths of the returned list
Listed == {ret[k].filePath : k \in 1..Len(ret)}

\* some import, of any style, of a parsed file of the corpus resolves to F
IsResolvedTarget(F) ==
    \E f \in DOMAIN corpus :
        /\ ParseSucceeds(f)
        /\ \E k \in 1..Len(getAllImports(parseFile(f))) :
               resolveImport(getAllImports(parseFile(f))[k].module, f) = F

\* the statement re-exports from the file F: export ... from a specifier that denotes F
ReExportsFrom(node, fromFile, F) ==
    /\ node.t \in {"ExportNamedDeclaration", "ExportAllDeclaration"}
    /\ node.source # NULL
    /\ Denotes(node.source, fromFile, F)

\* A is an index file of the corpus with a statement that re-exports from F
IsAggregatorOf(A, F) ==
    /\ ParseSucceeds(A)
    /\ basename(A) \in {IndexTs, IndexJs}
    /\ \E k \in 1..Len(parseFile(A)) : ReExportsFrom(parseFile(A)[k], A, F)

\* F is re-exported by an aggregator that is itself the resolved target of an import
UsedThroughAggregator(F) ==
    \E A \in DOMAIN corpus : IsAggregatorOf(A, F) /\ IsResolvedTarget(A)

\* C12: with every style enabled, a file that an index file re-exports is not listed as
\* unused when that index file is the resolved target of an import, even though no file
\* imports it directly.
C12_ReExportedLeafIsUsed ==
    (UnusedDone /\ AllStylesEnabled) =>
        \A F \in DOMAIN corpus :
            (~IsResolvedTarget(F) /\ UsedThroughAggregator(F)) => F \notin Listed

\* C13: with every style enabled, findUnusedFiles lists a parsed file that matches the filter exactly when it is
\* neither the resolved target of an import nor re-exported by an aggregator that is such a
\* target; a file that does not contain the filter substring is never listed.
C13_UnusedExactly ==
    (UnusedDone /\ AllStylesEnabled) =>
        \A F \in DOMAIN corpus :
            F \in Listed <=>
                /\ ParseSucceeds(F)
                /\ (Truthy(scan.filePattern) => StrIncludes(F, scan.filePattern))
                /\ ~IsResolvedTarget(F)
                /\ ~UsedThroughAggregator(F)

----------------------------------------------------------------------------
(* Properties of buildImportMap *)

\* buildImportMap has returned
ImportMapDone == scan.pc = "done" /\ scan.op = "buildImportMap"

\* importedBy[t], <<>> when the map has no such key
ImportersOf(t) ==
    Flatten([k \in 1..Len(ret.importedBy) |->
                IF ret.importedBy[k].target = t THEN ret.importedBy[k].files ELSE <<>>])

\* some import record of the forward entry imports[f] resolves to t
ForwardResolvesTo(f, t) ==
    \E k \in 1..Len(ret.imports) :
        /\ ret.imports[k].file = f
        /\ \E j \in 1..Len(AllImportsOf(ret.imports[k].imports)) :
               resolveImport(AllImportsOf(ret.imports[k].imports)[j].module, f) = t

\* the strings the imports of the forward entries resolve to, and the keys of importedBy
ResolvedStrings ==
    ( {ret.importedBy[k].target : k \in 1..Len(ret.importedBy)}
      \cup UNION { {resolveImport(AllImportsOf(ret.imports[k].imports)[j].module, ret.imports[k].file) :
                        j \in 1..Len(AllImportsOf(ret.imports[k].imports))} :
                   k \in 1..Len(ret.imports) } ) \ {NULL}

\* importedBy[t] is the set of the files with a forward import that resolves to t, each once
ConsistentAt(t) ==
    /\ \A f \in DOMAIN corpus : SeqIncludes(ImportersOf(t), f) <=> ForwardResolvesTo(f, t)
    /\ NoRepeat(ImportersOf(t))

\* C14 as claimed: for every target t and every file f of the corpus, f is in importedBy[t]
\* exactly when an import record of imports[f] resolves to t, and no file is there twice.
C14_ImportMapConsistent_Claimed ==
    ImportMapDone => \A t \in ResolvedStrings : ConsistentAt(t)

\* C14 amended: for every non-empty target t and every file f of the corpus, f is in
\* importedBy[t] exactly when an import record of imports[f] resolves to t, and no file is
\* there twice; an import that resolves to the empty string is recorded under no key.
C14_ImportMapConsistent ==
    ImportMapDone =>
        /\ \A t \in ResolvedStrings \ {EmptyStr} : ConsistentAt(t)
        /\ ImportersOf(EmptyStr) = <<>>

\* A.tsx imports ./cmp/T twice: importedBy of the target lists A.tsx once
C14_Witness ==
    /\ ImportMapDone
    /\ \E k \in 1..Len(ret.imports) :
          /\ ret.imports[k].file = G_A
          /\ Len(ret.imports[k].imports.static) = 2
    /\ ImportersOf(G_T) = << G_A >>

----------------------------------------------------------------------------
(* Properties of the search for modules loaded through a wrapper call *)

\* the node is a call <object>.lazy(() => import(S)) or dynamic(() => import(S))
IsLazyWrapperOf(node, S) ==
    /\ node.t = "CallExpression"
    /\ \/ (node.callee.t = "MemberExpression" /\ node.callee.property = "lazy")
       \/ (node.callee.t = "Identifier" /\ node.callee.name = "dynamic")
    /\ Len(node.arguments) > 0
    /\ node.arguments[1].t = "ArrowFunctionExpression"
    /\ node.arguments[1].body.t = "ImportExpression"
    /\ node.arguments[1].body.source = S

\* the specifiers that wrapper calls of the file load, alone or bound to a local name
LazilyLoadedBy(f) ==
    {S \in {S_sib_T, S_cmp_T} :
        \E k \in 1..Len(parseFile(f)) : IsLazyWrapperOf(Visited(parseFile(f)[k]), S)}

\* C15: a search for T returns every file with a call A.lazy(() => import(S)) or
\* dynamic(() => import(S)) whose specifier S names T, with an import record of
\* specifier S, whatever the object name A and the local name the result is bound to.
C15_LazyWrappersFound ==
    NameSearchDone =>
        \A f \in DOMAIN corpus : \A S \in LazilyLoadedBy(f) :
            /\ EntriesOf(f) # <<>>
            /\ \E k \in 1..Len(EntriesOf(f)[1].imports) : EntriesOf(f)[1].imports[k].module = S

----------------------------------------------------------------------------
(* Properties of the result of findFilesImporting *)

\* findFilesImporting has returned
SearchDone == find.pc = "done"

\* C16: no import record of the result has a disabled style, whether it matched directly
\* or was reached through a barrel, and no entry of the result is left without a record.
C16_NoDisabledStyle ==
    SearchDone =>
        \A k \in 1..Len(ret) :
            /\ Len(ret[k].imports) > 0
            /\ \A j \in 1..Len(ret[k].imports) : TypeEnabled(ret[k].imports[j].type)

\* with the dynamic style off, H.tsx reaches the barrel B.ts by a static import and by an
\* import(): the barrel pass adds H.tsx with the static record alone
C16_Witness ==
    /\ SearchDone
    /\ ~options.detectDynamic
    /\ G_H \in DOMAIN corpus
    /\ corpus[G_H] = Parsed(<< ImportT(S_up_B), ImportExpression(S_up_B) >>)
    /\ Len(EntriesOf(G_H)) = 1
    /\ Len(EntriesOf(G_H)[1].imports) = 1
    /\ EntriesOf(G_H)[1].imports[1].type = "static"

\* the files of the enumeration whose parse succeeds
ParsedFiles == SelectSeq(find.files, ParseSucceeds)

\* the result and the import cache of the search run over these files alone
SearchOver(files) ==
    With(ProcessBatch([results |-> <<>>, fileImportsMap |-> <<>>, failedFiles |-> <<>>],
                      files, find.moduleName, find.targetPath),
         LAMBDA st :
            [results |-> IF Truthy(find.targetPath)
                         THEN BarrelPass(1, st.results, {}, st.fileImportsMap, find.targetPath).results
                         ELSE st.results,
             fileImportsMap |-> st.fileImportsMap])

\* C17: a file whose parse fails is in no entry of the result and in no entry of the
\* import cache of the operation, and the result and the cache are those of the search
\* over the enumeration without the failed files.
C17_FailedFilesIsolated ==
    /\ find.pc \in {"yielded", "done"} =>
           \A k \in 1..Len(find.files) :
               ~ParseSucceeds(find.files[k]) =>
                   /\ \A r \in 1..Len(find.results) : find.results[r].file # find.files[k]
                   /\ \A c \in 1..Len(find.fileImportsMap) :
                          find.fileImportsMap[c].file # find.files[k]
    /\ SearchDone =>
           With(SearchOver(ParsedFiles), LAMBDA alone :
               /\ ret = alone.results
               /\ find.fileImportsMap = alone.fileImportsMap)

\* Z.ts failed to parse in a search that returns a barrel and a consumer of the barrel
C17_Witness ==
    /\ SearchDone
    /\ find.failedFiles = << G_Z >>
    /\ \E k \in 1..Len(find.files) : find.files[k] = G_Z
    /\ Len(EntriesOf(G_B)) = 1
    /\ Len(EntriesOf(G_PZ)) = 1

SameTriple(a, b) == a.module = b.module /\ a.line = b.line /\ a.type = b.type

\* no file has two entries in the result
OneEntryPerFile ==
    \A k1, k2 \in 1..Len(ret) : ret[k1].file = ret[k2].file => k1 = k2

\* the number of records of the sequence with the triple of imp
TripleCount(imports, imp) ==
    Cardinality({j \in 1..Len(imports) : SameTriple(imports[j], imp)})

\* C19 as claimed: no file is in two entries of the result, and no two records of one
\* entry have the same specifier, line and style.
C19_RecordsOnce_Claimed ==
    SearchDone =>
        /\ OneEntryPerFile
        /\ \A k \in 1..Len(ret) :
               \A i, j \in 1..Len(ret[k].imports) :
                   SameTriple(ret[k].imports[i], ret[k].imports[j]) => i = j

\* C19: no file is in two entries of the result, and an entry holds a triple of
\* specifier, line and style no more often than the file has imports with that triple:
\* an import matched directly and reached again through a barrel is recorded once, and
\* two records share a triple only when the file has two such imports on one line.
C19_RecordsOnce ==
    SearchDone =>
        /\ OneEntryPerFile
        /\ \A k \in 1..Len(ret) :
               \A j \in 1..Len(ret[k].imports) :
                   TripleCount(ret[k].imports, ret[k].imports[j])
                       <= TripleCount(getAllImports(parseFile(ret[k].file)), ret[k].imports[j])

\* H.tsx imports the index file of the directory of the target: its import matches
\* directly and the barrel pass reaches it again as a consumer of the index file
C19_Witness ==
    /\ SearchDone
    /\ G_I \in find.visitedBarrels
    /\ G_H \in DOMAIN corpus
    /\ corpus[G_H] = Parsed(<< ImportT(S_up_cmp) >>)
    /\ Len(EntriesOf(G_H)) = 1
    /\ Len(EntriesOf(G_H)[1].imports) = 1

\* the file parses and has an import that matches the search and has an enabled style
IsDirectMatch(f) ==
    /\ ParseSucceeds(f)
    /\ Len(filterImportsByType(filterImportsByModule(getAllImports(parseFile(f)),
                                                     find.moduleName, f, find.targetPath))) > 0

\* the direct matches, in the order of the enumeration
DirectMatches == SelectSeq(find.files, IsDirectMatch)

\* entry k of the result is a barrel of the target and file g is one of its consumers
\* with an import of an enabled style
FeedsEntry(k, g) ==
    With(isBarrelForModule(ret[k].file, find.targetPath), LAMBDA barrelCheck :
        /\ barrelCheck.isBarrel
        /\ g # ret[k].file
        /\ \E c \in 1..Len(find.fileImportsMap) :
               /\ find.fileImportsMap[c].file = g
               /\ Len(filterImportsByType(
                          ConsumerImports(g, find.fileImportsMap[c].imports,
                                          ret[k].file, barrelCheck.exportedNames))) > 0)

\* the position in the result of the first barrel that has g as a consumer; 0 if none
SourceBarrel(g) ==
    With({k \in 1..Len(ret) : FeedsEntry(k, g)}, LAMBDA feeders :
        IF feeders = {} THEN 0 ELSE CHOOSE k \in feeders : \A x \in feeders : k <= x)

\* the result begins with the direct matches, in the order of the enumeration, which is
\* the order of the paths
DirectMatchesFirst(direct) ==
    /\ Len(ret) >= Len(direct)
    /\ \A k \in 1..Len(direct) : ret[k].file = direct[k]
    /\ \A i, j \in 1..Len(direct) : i < j => StrLess(direct[i], direct[j])

\* C20 as claimed: the result is the direct matches in the order of the enumeration,
\* then the entries added by the barrel pass in the order of their source barrels among
\* the direct matches, and the entries added by the barrel pass are in the order of
\* their paths.
C20_ResultOrder_Claimed ==
    SearchDone =>
        With(DirectMatches, LAMBDA direct :
            /\ DirectMatchesFirst(direct)
            /\ \A i \in (Len(direct) + 1)..Len(ret) :
                   SourceBarrel(ret[i].file) \in 1..Len(direct)
            /\ \A i, j \in (Len(direct) + 1)..Len(ret) :
                   i < j => /\ SourceBarrel(ret[i].file) <= SourceBarrel(ret[j].file)
                            /\ StrLess(ret[i].file, ret[j].file))

\* C20: the result is the direct matches in the order of the enumeration, which is the
\* order of their paths, then the entries added by the barrel pass, each after its source
\* barrel, in the order of their source barrels in the result, the entries of one
\* source barrel being in the order of their paths.
C20_ResultOrder ==
    SearchDone =>
        With(DirectMatches, LAMBDA direct :
            /\ DirectMatchesFirst(direct)
            /\ \A i \in (Len(direct) + 1)..Len(ret) :
                   SourceBarrel(ret[i].file) \in 1..(i - 1)
            /\ \A i, j \in (Len(direct) + 1)..Len(ret) :
                   i < j => With(SourceBarrel(ret[i].file), LAMBDA si :
                            With(SourceBarrel(ret[j].file), LAMBDA sj :
                                \/ si < sj
                                \/ si = sj /\ StrLess(ret[i].file, ret[j].file))))

\* two barrels were direct matches and each brought one consumer into the result
C20_Witness ==
    /\ SearchDone
    /\ Len(ret) = 4
    /\ ret[1].file = G_B
    /\ ret[2].file = G_C
    /\ SourceBarrel(ret[3].file) = 1
    /\ SourceBarrel(ret[4].file) = 2

\* the number of times the operation called parseFile for f
ParseCount(f) == Cardinality({k \in 1..Len(find.parseLog) : find.parseLog[k] = f})

\* C21: during one findFilesImporting every file of the corpus is read and parsed at most
\* once; the barrel check parses no file that the direct pass parsed.
C21_ParsedAtMostOnce ==
    find.pc \in {"yielded", "done"} => \A f \in DOMAIN corpus : ParseCount(f) <= 1

----------------------------------------------------------------------------
(* Properties of the barrel tracing *)

\* the corpus holds the chain T.ts <- B.ts <- cmp/S.ts <- pages/H.tsx
ChainPresent ==
    /\ {G_B, G_S, G_H} \subseteq DOMAIN corpus
    /\ corpus[G_B] = ChainB1
    /\ corpus[G_S] = ChainB2
    /\ corpus[G_H] = ChainConsumer

\* C22: for a chain Target <- B1 <- B2 <- C of barrels, the search for the module path of
\* the target returns B1, B2 and the consumer C behind the nested barrel.
C22_NestedBarrelConsumersFound ==
    (SearchDone /\ ChainPresent) =>
        \A f \in {G_B, G_S, G_H} : Len(EntriesOf(f)) = 1

----------------------------------------------------------------------------
(* Properties of the batch loops *)

\* the files of the enumeration up to the end of the batch that begins after file i
ThroughBatch(files, i) == SubSeq(files, 1, Min(i + 20, Len(files)))

\* the files analyzeProject has stored, in the order it stored them
ScannedFiles == [k \in 1..Len(scan.filesMap) |-> scan.filesMap[k].file]

\* when control is yielded, the files processed are those of the batches up to the
\* current one, in the order of the enumeration, and the current batch begins at a
\* multiple of 20
YieldsBetweenBatches ==
    /\ find.pc = "yielded" =>
           /\ find.i % 20 = 0
           /\ find.i < Len(find.files)
           /\ find.parseLog = ThroughBatch(find.files, find.i)
    /\ find.pc = "done" =>
           /\ Len(find.parseLog) >= Len(find.files)
           /\ SubSeq(find.parseLog, 1, Len(find.files)) = find.files
    /\ scan.pc = "yielded" =>
           /\ scan.i % 20 = 0
           /\ scan.i < Len(scan.files)
           /\ ScannedFiles = SelectSeq(ThroughBatch(scan.files, scan.i), ParseSucceeds)
    /\ scan.pc = "done" => ScannedFiles = SelectSeq(scan.files, ParseSucceeds)

\* a step that ends in a yield has processed one batch: the next 1 to 20 files
OneBatchPerYield ==
    /\ find'.pc = "yielded" =>
           /\ Len(find'.parseLog) - Len(find.parseLog) \in 1..20
           /\ find'.i = Len(find.parseLog)
    /\ scan'.pc = "yielded" =>
           /\ scan'.i = (IF scan.pc = "yielded" THEN scan.i + 20 ELSE 0)
           /\ Len(ThroughBatch(scan'.files, scan'.i)) - scan'.i \in 1..20
    /\ (find.pc = "yielded" /\ find'.pc = "done") => find.i + 20 >= Len(find.files)
    /\ (scan.pc = "yielded" /\ scan'.pc = "done") => scan.i + 20 >= Len(scan.files)

\* C23: findFilesImporting and analyzeProject process the files in the order of the
\* enumeration in consecutive batches of at most 20 files, and yield once after each
\* batch, before a file of the next batch is processed and never inside a batch.
C23_CooperativeBatches == []YieldsBetweenBatches /\ [][OneBatchPerYield]_vars

\* findFilesImporting has yielded after its third batch, the one file left of 41
C23_Witness ==
    /\ find.pc = "yielded"
    /\ find.i = 40
    /\ Len(find.files) = 41
    /\ Len(find.parseLog) = 41

\* findBarrelConsumers was called for a barrel that is not in the visited set
ConsumersCalled == call.op = "findBarrelConsumers" /\ call.barrelFilePath \notin call.visited

\* the import record binds no name of the barrel: a side-effect, namespace or
\* default-only import, or an import of a style that has no specifiers
BindsNoName(imp) ==
    \/ imp.specifiers = NULL
    \/ Len(imp.specifiers) = 0
    \/ imp.kind \in {"namespace", "default"}

\* the rule of the claim for an import that resolves to the barrel
ConsumerRule(imp, reExportedNames) ==
    \/ BindsNoName(imp)
    \/ \E n \in 1..Len(reExportedNames) : SeqIncludes(imp.specifiers, reExportedNames[n])
    \/ imp.kind = "default" /\ SeqIncludes(reExportedNames, <<"default">>)

\* the call reported this import record of file f
ReportedImport(f, imp) ==
    \E k \in 1..Len(ret.results) :
        ret.results[k].file = f /\ SeqIncludes(ret.results[k].imports, imp)

\* C24: findBarrelConsumers reports an import of another file that resolves to the
\* barrel exactly when the import binds no name, or one of its names is re-exported, or
\* it is a default import and 'default' is re-exported; it reports a file exactly when
\* it reports one of its imports.
C24_ConsumerImportsReported ==
    ConsumersCalled =>
        /\ \A c \in 1..Len(call.fileImportsMap) :
               call.fileImportsMap[c].file # call.barrelFilePath =>
                   \A j \in 1..Len(call.fileImportsMap[c].imports) :
                       With(call.fileImportsMap[c].imports[j], LAMBDA imp :
                           (Truthy(imp.resolvedPath)
                              /\ pathsMatch(imp.resolvedPath, call.barrelFilePath))
                           => (ReportedImport(call.fileImportsMap[c].file, imp)
                                  <=> ConsumerRule(imp, call.exportedNames)))
        /\ \A k \in 1..Len(ret.results) : Len(ret.results[k].imports) > 0

\* the result of a call of findBarrelConsumers, by whether the barrel was visited
VisitedContract ==
    call.op = "findBarrelConsumers" =>
        IF call.barrelFilePath \in call.visited
        THEN ret.results = <<>> /\ ret.visited = call.visited
        ELSE ret.visited = call.visited \cup {call.barrelFilePath}

\* a step of findFilesImporting removes no barrel from the visited set, and an iteration
\* of the barrel pass either leaves the results and the set as they are or adds the file
\* of the entry it visits, which was not in the set
VisitedGrows ==
    /\ find.visitedBarrels \subseteq find'.visitedBarrels
    /\ (find.pc = "barrelPass" /\ find'.pc = "barrelPass") =>
           \/ /\ find'.visitedBarrels = find.visitedBarrels
              /\ find'.results = find.results
           \/ /\ find.results[find.k].file \notin find.visitedBarrels
              /\ find'.visitedBarrels = find.visitedBarrels \cup {find.results[find.k].file}

\* C25: findBarrelConsumers called for a barrel of the visited set returns no consumer
\* and leaves the set unchanged; called for another barrel it adds that barrel alone to
\* the set. Within one findFilesImporting the set only grows and a barrel is expanded
\* only when it is added to the set, so at most once.
C25_VisitedBarrels == []VisitedContract /\ [][VisitedGrows]_vars

\* findBarrelConsumers was called for B.ts, which has the consumer H.tsx, with B.ts
\* in the visited set
C25_Witness ==
    /\ call.op = "findBarrelConsumers"
    /\ call.barrelFilePath = G_B
    /\ call.visited = {G_B}
    /\ G_H \in DOMAIN corpus
    /\ corpus[G_B] = ChainB1
    /\ corpus[G_H] = Parsed(<< ImportT(S_up_B) >>)
    /\ ret.results = <<>>

\* in the barrel pass the iterator is at most one past the end of results, and results
\* holds no more entries than there are parsed files
PassBounded ==
    find.pc = "barrelPass" =>
        /\ find.k <= Len(find.results) + 1
        /\ Len(find.results) <= Len(find.fileImportsMap)

\* a bound on the steps a findFilesImporting in state f has left: the batches and the
\* entries of results still to be taken, results holding at most one entry for each
\* parsed file
StepsLeft(f) ==
    CASE f.pc = "awaitFiles" -> 2 * Cardinality(fsFiles) + 5
      [] f.pc = "yielded" -> 2 * Len(f.files) + 3 - f.i
      [] f.pc = "barrelPass" -> Len(f.fileImportsMap) + 2 - f.k
      [] OTHER -> 0

Running(f) == f.pc \in {"awaitFiles", "yielded", "barrelPass"}

\* a step of a running operation leaves fewer steps; an operation that has steps left
\* is neither returned nor rejected, and one that yielded goes on to the barrel pass
SearchAdvances ==
    Running(find) =>
        /\ StepsLeft(find') < StepsLeft(find)
        /\ StepsLeft(find') >= 0
        /\ Running(find') <=> StepsLeft(find') > 0
        /\ find'.pc \in {"yielded", "barrelPass"} => Truthy(find'.targetPath)

\* C26: findFilesImporting terminates on every corpus, circular barrels included: the
\* list the barrel pass iterates over while appending to it never holds more entries
\* than there are parsed files, and every step of a running operation lowers a bound on
\* the steps it has left, which is zero only when the operation returned or rejected.
C26_SearchTerminates == []PassBounded /\ [][SearchAdvances]_vars

\* the search returned for a corpus with two barrels of the target that import from
\* each other, after expanding both
C26_Witness ==
    /\ find.pc = "done"
    /\ {G_B, G_C} \subseteq DOMAIN corpus
    /\ corpus[G_B] = CircularB
    /\ corpus[G_C] = CircularC
    /\ find.visitedBarrels = {G_B, G_C}

\* the exported names of the export records of the file whose local name is bound by
\* an import of the target
ForwardedNames ==
    With(extractExports(BarrelBody), LAMBDA exports :
        {exports[k].name : k \in {i \in 1..Len(exports) :
                                     exports[i].localName \in BoundByTargetImports}})

\* C27: the re-exported names isBarrelForModule gives for a file are the exported names
\* of the export records whose local name is bound by any import of the target in the
\* file, 'default' among them when the default import is re-exported as default, and no
\* name is given twice.
C27_ReExportedNames ==
    call.op = "findBarrelConsumers" =>
        /\ {call.exportedNames[k] : k \in 1..Len(call.exportedNames)} = ForwardedNames
        /\ NoRepeat(call.exportedNames)

----------------------------------------------------------------------------
(* Properties of the index files beside the target *)

\* p is an index file of a configured extension in the directory of the target
IsIndexBesideTarget(p, targetPath) ==
    /\ Truthy(p)
    /\ dirname(p) = dirname(targetPath)
    /\ \E k \in 1..Len(extensions) : basename(p) = <<"index">> \o extensions[k]

\* the import record imp of file f is in the result
InResult(f, imp) ==
    \E k \in 1..Len(ret) : ret[k].file = f /\ SeqIncludes(ret[k].imports, imp)

\* C28: with a path target set, an import of an enabled style that resolves to an index
\* file of any configured extension in the directory of the target is a match: its
\* record is in the result under the importing file.
C28_IndexBesideTargetMatches ==
    (SearchDone /\ Truthy(find.targetPath)) =>
        \A c \in 1..Len(find.fileImportsMap) :
            \A j \in 1..Len(find.fileImportsMap[c].imports) :
                With(find.fileImportsMap[c].imports[j], LAMBDA imp :
                    (TypeEnabled(imp.type) /\ IsIndexBesideTarget(imp.resolvedPath, find.targetPath))
                        => InResult(find.fileImportsMap[c].file, imp))

----------------------------------------------------------------------------
(* Properties of the progress reports *)

\* the reports made so far to a supplied callback over an enumeration of n files: each
\* has total n and a current in 1..n, and current grows from report to report
ReportsInRange(progress, n) ==
    /\ \A k \in 1..Len(progress) :
           /\ progress[k][2] = n
           /\ 0 < progress[k][1]
           /\ progress[k][1] <= n
    /\ \A k \in 1..(Len(progress) - 1) : progress[k][1] < progress[k + 1][1]

\* the reports of an operation that has returned: none over no file, and none when no
\* callback was given; otherwise the last one has current = n
ReportsComplete(progress, n, callback) ==
    IF n = 0 \/ ~callback THEN progress = <<>>
    ELSE Len(progress) > 0 /\ progress[Len(progress)][1] = n

\* C29: the calls of the progress callback of findFilesImporting and of analyzeProject
\* over n files report total = n and 0 < current <= n, current grows strictly from call
\* to call, the last call reports current = n, and over no file there is no call.
C29_ProgressReports ==
    /\ find.pc \in {"yielded", "done"} => ReportsInRange(find.progress, Len(find.files))
    /\ find.pc = "done" =>
           ReportsComplete(find.progress, Len(find.files), find.progressCallback)
    /\ scan.pc \in {"yielded", "done"} => ReportsInRange(scan.progress, Len(scan.files))
    /\ scan.pc = "done" =>
           ReportsComplete(scan.progress, Len(scan.files), scan.progressCallback)

\* findFilesImporting has returned after three reports over 41 files: 20, 40 and 41
C29_Witness ==
    /\ find.pc = "done"
    /\ find.progressCallback
    /\ Len(find.files) = 41
    /\ find.progress = << <<20, 41>>, <<40, 41>> , <<41, 41>> >>

----------------------------------------------------------------------------
(* Properties of the configured module path *)

\* the import record resolves to the target or to an index file beside it, or its file
\* is a consumer of a barrel of the target that is in the result
WithinTarget(f, imp, targetPath) ==
    \/ Truthy(imp.resolvedPath) /\ pathsMatch(imp.resolvedPath, targetPath)
    \/ IsIndexBesideTarget(imp.resolvedPath, targetPath)
    \/ \E k \in 1..Len(ret) : FeedsEntry(k, f)

\* C30: when modulePath is set, every import record of the result resolves to the
\* target or to an index file beside it, or belongs to a consumer of a barrel of the
\* target; when modulePath resolves to no file the result is empty, whatever the name.
C30_ModulePathRestricts ==
    (SearchDone /\ Truthy(options.modulePath)) =>
        IF Truthy(find.targetPath)
        THEN \A k \in 1..Len(ret) :
                 \A j \in 1..Len(ret[k].imports) :
                     WithinTarget(ret[k].file, ret[k].imports[j], find.targetPath)
        ELSE ret = <<>>

====
